---- MODULE Spec2Model ----
(***************************************************************************)
(* Model of the test discovery engine of the EvalOps CLI:                  *)
(*   src/src/lib/simple-test-discovery.ts  (heuristic strategy)            *)
(*   src/src/lib/test-discovery.ts         (structural strategy)           *)
(*                                                                         *)
(* A file's content is a sequence of lexemes.  Every lexeme stands for the *)
(* characters it is written with; the patterns of the code are matched on  *)
(* lexemes the way the JavaScript regex engine matches them on characters. *)
(* Offsets are 0-based as in the code.                                     *)
(***************************************************************************)
EXTENDS Integers, Sequences, FiniteSets, TLC

\* ------------------------------------------------------------------------
\* Text
\* ------------------------------------------------------------------------
NoChar == "<eof>"

\* content[i]
Ch(content, i) == IF i >= 0 /\ i < Len(content) THEN content[i + 1] ELSE NoChar

Max2(a, b) == IF a >= b THEN a ELSE b
Min2(a, b) == IF a <= b THEN a ELSE b
Clamp(content, i) == Max2(0, Min2(i, Len(content)))

\* String.prototype.substring(a, b): arguments clamped to [0, length] and
\* swapped when a > b.
Substring(content, a, b) ==
  LET ca == Clamp(content, a)
      cb == Clamp(content, b)
  IN  SubSeq(content, Min2(ca, cb) + 1, Max2(ca, cb))

\* the regex class \s
IsSpace(ch) == ch \in {" ", "\n"}

Punctuation == {"@", "(", ")", "{", "}", "[", "]", ",", ":", "'", ";", " ", "\n", NoChar}

\* the regex class \w (a lexeme written with word characters only)
IsWord(ch) == ch \notin Punctuation

\* first offset >= i that does not hold a \s (the end of a greedy \s*)
RECURSIVE SkipSpace(_, _)
SkipSpace(content, i) ==
  IF IsSpace(Ch(content, i)) THEN SkipSpace(content, i + 1) ELSE i

\* first offset >= i that does not hold a \w (the end of a greedy \w+)
RECURSIVE SkipWord(_, _)
SkipWord(content, i) ==
  IF IsWord(Ch(content, i)) THEN SkipWord(content, i + 1) ELSE i

\* first offset >= i holding ch, or -1
RECURSIVE IndexOf(_, _, _)
IndexOf(content, ch, i) ==
  IF i >= Len(content) THEN -1
  ELSE IF Ch(content, i) = ch THEN i
  ELSE IndexOf(content, ch, i + 1)

\* content.substring(0, index).split('\n').length
RECURSIVE CountNewlines(_, _)
CountNewlines(content, n) ==
  IF n <= 0 THEN 0
  ELSE (IF Ch(content, n - 1) = "\n" THEN 1 ELSE 0) + CountNewlines(content, n - 1)

LineNumberAt(content, index) == CountNewlines(content, Min2(index, Len(content))) + 1

\* ------------------------------------------------------------------------
\* new Function('return ' + configStr)(): evaluation of an object literal.
\* Value ::= String | Object | Array ; String ::= ' (no quote, no newline)* ' ;
\* Object ::= { [Key : Value (, Key : Value)* [,]] } ;
\* Array ::= [ [Value (, Value)* [,]] ] .  Anything else (a bare
\* identifier, two operands in a row, unbalanced text) throws.
\* ------------------------------------------------------------------------
Fail == [ok |-> FALSE, next |-> 0, val |-> [t |-> "none", s |-> <<>>, props |-> <<>>]]
StrVal(s) == [t |-> "string", s |-> s, props |-> <<>>]
ObjVal(props) == [t |-> "object", s |-> <<>>, props |-> props]
UndefVal == [t |-> "undefined", s |-> <<>>, props |-> <<>>]
\* an array: its elements in order, under the empty key
ArrVal(elems) == [t |-> "array", s |-> <<>>, props |-> elems]

\* offset of the closing quote of the string literal opening at i, or -1
RECURSIVE StringEnd(_, _)
StringEnd(src, i) ==
  IF i >= Len(src) \/ Ch(src, i) = "\n" THEN -1
  ELSE IF Ch(src, i) = "'" THEN i
  ELSE StringEnd(src, i + 1)

RECURSIVE ParseValue(_, _)
RECURSIVE ParseProps(_, _, _)
RECURSIVE ParseElems(_, _, _)

\* src[i] is the lexeme after '{' or after ','; props are those read so far
ParseProps(src, i, props) ==
  LET k == SkipSpace(src, i)
  IN  IF Ch(src, k) = "}" THEN [ok |-> TRUE, next |-> k + 1, val |-> ObjVal(props)]
      ELSE IF ~IsWord(Ch(src, k)) THEN Fail
      ELSE LET c == SkipSpace(src, k + 1)
           IN  IF Ch(src, c) # ":" THEN Fail
               ELSE LET v == ParseValue(src, SkipSpace(src, c + 1))
                    IN  IF ~v.ok THEN Fail
                        ELSE LET a == SkipSpace(src, v.next)
                                 more == Append(props, [key |-> Ch(src, k), val |-> v.val])
                             IN  IF Ch(src, a) = "," THEN ParseProps(src, a + 1, more)
                                 ELSE IF Ch(src, a) = "}"
                                      THEN [ok |-> TRUE, next |-> a + 1, val |-> ObjVal(more)]
                                      ELSE Fail

ParseValue(src, i) ==
  IF Ch(src, i) = "'"
  THEN LET e == StringEnd(src, i + 1)
       IN  IF e = -1 THEN Fail
           ELSE [ok |-> TRUE, next |-> e + 1, val |-> StrVal(Substring(src, i + 1, e))]
  ELSE IF Ch(src, i) = "{" THEN ParseProps(src, i + 1, <<>>)
  ELSE IF Ch(src, i) = "[" THEN ParseElems(src, i + 1, <<>>)
  ELSE Fail

\* src[i] is the lexeme after '[' or after ','; elems are those read so far
ParseElems(src, i, elems) ==
  LET k == SkipSpace(src, i)
  IN  IF Ch(src, k) = "]" THEN [ok |-> TRUE, next |-> k + 1, val |-> ArrVal(elems)]
      ELSE LET v == ParseValue(src, k)
           IN  IF ~v.ok THEN Fail
               ELSE LET a == SkipSpace(src, v.next)
                        more == Append(elems, [key |-> "", val |-> v.val])
                    IN  IF Ch(src, a) = "," THEN ParseElems(src, a + 1, more)
                        ELSE IF Ch(src, a) = "]"
                             THEN [ok |-> TRUE, next |-> a + 1, val |-> ArrVal(more)]
                             ELSE Fail

\* the whole text must be one object literal
EvalLiteral(configStr) ==
  LET r == ParseValue(configStr, SkipSpace(configStr, 0))
  IN  IF r.ok /\ r.val.t = "object" /\ SkipSpace(configStr, r.next) = Len(configStr)
      THEN r ELSE Fail

\* config.<key>: the last property of that name wins
RECURSIVE GetFrom(_, _, _)
GetFrom(props, key, n) ==
  IF n = 0 THEN UndefVal
  ELSE IF props[n].key = key THEN props[n].val
  ELSE GetFrom(props, key, n - 1)

Get(val, key) == IF val.t = "object" THEN GetFrom(val.props, key, Len(val.props)) ELSE UndefVal

\* JavaScript truthiness of a value of the literal grammar
Truthy(val) == val.t \in {"object", "array"} \/ (val.t = "string" /\ val.s # <<>>)

\* ------------------------------------------------------------------------
\* The three patterns of SimpleTestDiscovery.parseTestFile
\* ------------------------------------------------------------------------
NoMatch == [ok |-> FALSE, index |-> -1, from |-> 0, to |-> 0, lastIndex |-> 0]

\* the lazy {[\s\S]*?} followed by \s*\) : the first '}' at or after e whose
\* next non-space lexeme is ')'
RECURSIVE DecoratorClose(_, _)
DecoratorClose(content, e) ==
  IF e >= Len(content) THEN -1
  ELSE IF Ch(content, e) = "}" /\ Ch(content, SkipSpace(content, e + 1)) = ")" THEN e
  ELSE DecoratorClose(content, e + 1)

\* /@evalops_test\s*\(\s*({[\s\S]*?})\s*\)/ anchored at offset s;
\* from..to is group 1 (to exclusive)
DecoratorMatchAt(content, s) ==
  IF Ch(content, s) # "@" \/ Ch(content, s + 1) # "evalops_test" THEN NoMatch
  ELSE LET p == SkipSpace(content, s + 2)
       IN  IF Ch(content, p) # "(" THEN NoMatch
           ELSE LET b == SkipSpace(content, p + 1)
                IN  IF Ch(content, b) # "{" THEN NoMatch
                    ELSE LET e == DecoratorClose(content, b + 1)
                         IN  IF e = -1 THEN NoMatch
                             ELSE [ok |-> TRUE, index |-> s, from |-> b, to |-> e + 1,
                                   lastIndex |-> SkipSpace(content, e + 1) + 1]

\* the tail \s*,\s*function[^{]*{ after the '}' at e: offset after the match, or -1
CallTail(content, e) ==
  LET c == SkipSpace(content, e + 1)
  IN  IF Ch(content, c) # "," THEN -1
      ELSE LET f == SkipSpace(content, c + 1)
           IN  IF Ch(content, f) # "function" THEN -1
               ELSE LET o == IndexOf(content, "{", f + 1)
                    IN  IF o = -1 THEN -1 ELSE o + 1

RECURSIVE CallClose(_, _)
CallClose(content, e) ==
  IF e >= Len(content) THEN -1
  ELSE IF Ch(content, e) = "}" /\ CallTail(content, e) # -1 THEN e
  ELSE CallClose(content, e + 1)

\* /evalops_test\s*\(\s*({[\s\S]*?})\s*,\s*function[^{]*{/ anchored at offset s
CallMatchAt(content, s) ==
  IF Ch(content, s) # "evalops_test" THEN NoMatch
  ELSE LET p == SkipSpace(content, s + 1)
       IN  IF Ch(content, p) # "(" THEN NoMatch
           ELSE LET b == SkipSpace(content, p + 1)
                IN  IF Ch(content, b) # "{" THEN NoMatch
                    ELSE LET e == CallClose(content, b + 1)
                         IN  IF e = -1 THEN NoMatch
                             ELSE [ok |-> TRUE, index |-> s, from |-> b, to |-> e + 1,
                                   lastIndex |-> CallTail(content, e)]

\* /function\s+(\w+)\s*\([^)]*\)\s*{/ anchored at offset s; from..to is the name
FunctionMatchAt(content, s) ==
  IF Ch(content, s) # "function" \/ ~IsSpace(Ch(content, s + 1)) THEN NoMatch
  ELSE LET n == SkipSpace(content, s + 1)
           w == SkipWord(content, n)
       IN  IF w = n THEN NoMatch
           ELSE LET p == SkipSpace(content, w)
                IN  IF Ch(content, p) # "(" THEN NoMatch
                    ELSE LET c == IndexOf(content, ")", p + 1)
                         IN  IF c = -1 THEN NoMatch
                             ELSE LET o == SkipSpace(content, c + 1)
                                  IN  IF Ch(content, o) # "{" THEN NoMatch
                                      ELSE [ok |-> TRUE, index |-> s, from |-> n, to |-> w,
                                            lastIndex |-> o + 1]

MatchAt(kind, content, s) ==
  CASE kind = "decorator" -> DecoratorMatchAt(content, s)
    [] kind = "call" -> CallMatchAt(content, s)
    [] kind = "function" -> FunctionMatchAt(content, s)

\* regex.exec with the g flag: the leftmost match at or after lastIndex
RECURSIVE Exec(_, _, _)
Exec(kind, content, lastIndex) ==
  IF lastIndex >= Len(content) THEN NoMatch
  ELSE LET m == MatchAt(kind, content, lastIndex)
       IN  IF m.ok THEN m ELSE Exec(kind, content, lastIndex + 1)

\* while ((m = regex.exec(content)) !== null): all the matches, in order
RECURSIVE AllMatches(_, _, _)
AllMatches(kind, content, lastIndex) ==
  LET m == Exec(kind, content, lastIndex)
  IN  IF ~m.ok THEN <<>>
      ELSE <<m>> \o AllMatches(kind, content, m.lastIndex)

\* ------------------------------------------------------------------------
\* Boundary extraction
\* ------------------------------------------------------------------------
RECURSIVE BodyLoop(_, _, _, _, _)
BodyLoop(content, i, braceCount, inFunction, functionStart) ==
  IF i >= Len(content) THEN <<>>
  ELSE IF Ch(content, i) = "{"
       THEN BodyLoop(content, i + 1, braceCount + 1, TRUE,
                     IF inFunction THEN functionStart ELSE i)
  ELSE IF Ch(content, i) = "}"
       THEN IF braceCount - 1 = 0 /\ inFunction
            THEN Substring(content, functionStart, i + 1)
            ELSE BodyLoop(content, i + 1, braceCount - 1, inFunction, functionStart)
  ELSE BodyLoop(content, i + 1, braceCount, inFunction, functionStart)

extractFunctionBody(content, startIndex) == BodyLoop(content, startIndex, 0, FALSE, -1)

\* the inner loop over j: first offset >= j holding none of ' ', '\t', '\n'
RECURSIVE FirstNonBlank(_, _)
FirstNonBlank(content, j) ==
  IF j >= Len(content) THEN -1
  ELSE IF Ch(content, j) \notin {" ", "\t", "\n"} THEN j
  ELSE FirstNonBlank(content, j + 1)

RECURSIVE CallLoop(_, _, _, _, _)
CallLoop(content, i, parenCount, foundComma, functionStart) ==
  IF i >= Len(content) THEN <<>>
  ELSE IF Ch(content, i) = "("
       THEN CallLoop(content, i + 1, parenCount + 1, foundComma, functionStart)
  ELSE IF Ch(content, i) = ")"
       THEN IF parenCount - 1 = 0
            THEN Substring(content, functionStart, i)
            ELSE CallLoop(content, i + 1, parenCount - 1, foundComma, functionStart)
  ELSE IF Ch(content, i) = "," /\ parenCount = 1 /\ ~foundComma
       THEN LET j == FirstNonBlank(content, i + 1)
            IN  CallLoop(content, i + 1, parenCount, TRUE,
                         IF j = -1 THEN functionStart ELSE j)
  ELSE CallLoop(content, i + 1, parenCount, foundComma, functionStart)

extractFunctionFromCall(content, callIndex) == CallLoop(content, callIndex, 0, FALSE, -1)

\* ------------------------------------------------------------------------
\* SimpleTestDiscovery.parseTestFile
\* ------------------------------------------------------------------------
\* { code: <extracted>, ...config.vars }: a map from variable name to value
VarNames(vars) == IF vars.t = "object" THEN {vars.props[n].key : n \in 1..Len(vars.props)} ELSE {}

\* { ...config.vars, code: <extracted> }: the extracted text written last
MergeVarsCodeLast(code, vars) ==
  [k \in {"code"} \cup VarNames(vars) |->
     IF k = "code" THEN StrVal(code) ELSE Get(vars, k)]

MergeVars(code, vars) ==
  [k \in {"code"} \cup VarNames(vars) |->
     IF k \in VarNames(vars) THEN Get(vars, k) ELSE StrVal(code)]

\* x, with the || y dropped
OrElseNothing(x, y) == x

\* x || y
OrElse(x, y) == IF Truthy(x) THEN x ELSE y

EmptyArray == ArrVal(<<>>)

\* the record with assert: config.asserts, the || [] dropped
TestCaseAssertsAsDeclared(config, code, fallback, filePath, functionName, lineNumber) ==
  [description |-> OrElse(Get(config, "description"), StrVal(fallback)),
   vars |-> MergeVars(code, Get(config, "vars")),
   assert |-> Get(config, "asserts"),
   prompt |-> Get(config, "prompt"),
   skip |-> Get(config, "skip"),
   tags |-> Get(config, "tags"),
   metadata |-> [filePath |-> filePath,
                 functionName |-> functionName,
                 lineNumber |-> lineNumber,
                 description |-> Get(config, "description"),
                 tags |-> Get(config, "tags")]]

TestCase(config, code, fallback, filePath, functionName, lineNumber) ==
  [description |-> OrElse(Get(config, "description"), StrVal(fallback)),
   vars |-> MergeVars(code, Get(config, "vars")),
   assert |-> OrElse(Get(config, "asserts"), EmptyArray),
   prompt |-> Get(config, "prompt"),
   skip |-> Get(config, "skip"),
   tags |-> Get(config, "tags"),
   metadata |-> [filePath |-> filePath,
                 functionName |-> functionName,
                 lineNumber |-> lineNumber,
                 description |-> Get(config, "description"),
                 tags |-> Get(config, "tags")]]

\* the decorators array: the matches whose group 1 evaluates
RECURSIVE Decorators(_, _, _)
Decorators(content, ms, n) ==
  IF n > Len(ms) THEN <<>>
  ELSE LET r == EvalLiteral(Substring(content, ms[n].from, ms[n].to))
       IN  (IF r.ok THEN <<[config |-> r.val, index |-> ms[n].index]>> ELSE <<>>)
           \o Decorators(content, ms, n + 1)

\* the functions array
Functions(content) ==
  LET ms == AllMatches("function", content, 0)
  IN  [n \in 1..Len(ms) |-> [name |-> Substring(content, ms[n].from, ms[n].to),
                              index |-> ms[n].index]]

FnOffset(decorator) == decorator.index

\* functions.find((fn) => fn.index > decorator.index): position in the array, or 0
FindNext(functions, decorator) ==
  LET hits == {n \in 1..Len(functions) : functions[n].index > FnOffset(decorator)}
  IN  IF hits = {} THEN 0 ELSE CHOOSE n \in hits : \A m \in hits : n <= m

RECURSIVE DecoratorCases(_, _, _, _, _)
DecoratorCases(content, filePath, decorators, functions, n) ==
  IF n > Len(decorators) THEN <<>>
  ELSE LET f == FindNext(functions, decorators[n])
       IN  (IF f = 0 THEN <<>>
            ELSE <<TestCase(decorators[n].config,
                            extractFunctionBody(content, functions[f].index),
                            <<"Test case for ">> \o functions[f].name,
                            filePath, functions[f].name,
                            LineNumberAt(content, decorators[n].index))>>)
           \o DecoratorCases(content, filePath, decorators, functions, n + 1)

RECURSIVE CallCases(_, _, _, _)
CallCases(content, filePath, ms, n) ==
  IF n > Len(ms) THEN <<>>
  ELSE LET r == EvalLiteral(Substring(content, ms[n].from, ms[n].to))
       IN  (IF ~r.ok THEN <<>>
            ELSE <<TestCase(r.val,
                            extractFunctionFromCall(content, ms[n].index),
                            <<"Inline test case">>,
                            filePath, <<"inline_test">>,
                            LineNumberAt(content, ms[n].index))>>)
           \o CallCases(content, filePath, ms, n + 1)

parseTestFile(content, filePath) ==
  LET decorators == Decorators(content, AllMatches("decorator", content, 0), 1)
      functions == Functions(content)
  IN  DecoratorCases(content, filePath, decorators, functions, 1)
      \o CallCases(content, filePath, AllMatches("call", content, 0), 1)

\* ------------------------------------------------------------------------
\* Source files: a file is a list of top-level items, one per line group
\* ------------------------------------------------------------------------
MaxItems == 2

CfgDescribed == <<"{", "description", ":", "'", "First", "'", "}">>
CfgMalformed == <<"{", "invalid", ":", "syntax", " ", "here", "}">>
CfgTwoFields == <<"{", "description", ":", "'", "First", "'", ",", " ",
                  "prompt", ":", "'", "Review", "'", "}">>
CfgQuotedFunction == <<"{", "prompt", ":", "'", "function", " ", "helper", "(", ")",
                       " ", "{", "'", "}">>
CfgQuotedParen == <<"{", "description", ":", "'", ")", "'", "}">>
CfgWithCode == <<"{", "vars", ":", "{", "code", ":", "'", "own", "'", "}", "}">>
CfgWithVars == <<"{", "description", ":", "'", "'", ",", " ",
                 "asserts", ":", "[", "{", "type", ":", "'", "contains", "'", "}", "]", ",", " ",
                 "vars", ":", "{", "lang", ":", "'", "ts", "'", "}", "}">>

BodySimple == <<"{", "}">>
BodyNested == <<"{", "return", " ", "{", "}", ";", "}">>

NoParams == <<>>
DestructuredParams == <<"{", "a", "}">>

Item(form, config, name, params, body) ==
  [form |-> form, config |-> config, name |-> name, params |-> params, body |-> body]

Items ==
  { Item("annotated", CfgDescribed, "testOne", NoParams, BodyNested),
    Item("annotated", CfgMalformed, "testBroken", NoParams, BodySimple),
    Item("annotated", CfgQuotedFunction, "testTwo", NoParams, BodySimple),
    Item("annotated", CfgDescribed, "testThree", DestructuredParams, BodySimple),
    Item("annotated", CfgWithCode, "testFour", NoParams, BodySimple),
    Item("annotated", CfgWithVars, "testFive", NoParams, BodySimple),
    Item("annotation", CfgDescribed, "", NoParams, <<>>),
    Item("function", <<>>, "regularFunction", NoParams, BodySimple),
    Item("call", CfgDescribed, "", NoParams, BodyNested),
    Item("call", CfgMalformed, "", NoParams, BodySimple),
    Item("call", CfgTwoFields, "", NoParams, BodySimple),
    Item("call", CfgQuotedParen, "", NoParams, BodySimple),
    Item("call", CfgWithCode, "", NoParams, BodySimple) }

AnnotationText(item) == <<"@", "evalops_test", "(">> \o item.config \o <<")">>
FunctionText(item) ==
  <<"function", " ", item.name, "(">> \o item.params \o <<")", " ">> \o item.body
FunctionValueText(item) == <<"function", "(", ")", " ">> \o item.body
CallText(item) ==
  <<"evalops_test", "(">> \o item.config \o <<",", " ">> \o FunctionValueText(item)
    \o <<")", ";">>

ItemText(item) ==
  CASE item.form = "annotated" -> AnnotationText(item) \o <<"\n">> \o FunctionText(item)
    [] item.form = "annotation" -> AnnotationText(item)
    [] item.form = "function" -> FunctionText(item)
    [] item.form = "call" -> CallText(item)

\* every item is followed by a newline
RECURSIVE FileText(_)
FileText(items) ==
  IF items = <<>> THEN <<>>
  ELSE ItemText(Head(items)) \o <<"\n">> \o FileText(Tail(items))

\* offset of the n-th item in the text of its file
ItemOffset(items, n) == Len(FileText(SubSeq(items, 1, n - 1)))

FileBodies == UNION {[1..n -> Items] : n \in 0..MaxItems}

\* ------------------------------------------------------------------------
\* File selection: glob(pattern, { ignore: [...] })
\* A path is its list of segments relative to the working directory and a
\* segment is its list of dot-separated parts.
\* ------------------------------------------------------------------------
Globstar == [kind |-> "globstar", parts |-> <<>>, exts |-> {}]
Literal(name) == [kind |-> "literal", parts |-> name, exts |-> {}]
\* the segment pattern *.<mid>.{<exts>}
Suffixed(mid, exts) == [kind |-> "suffixed", parts |-> <<mid>>, exts |-> exts]

SegmentMatches(pat, seg) ==
  CASE pat.kind = "literal" -> seg = pat.parts
    [] pat.kind = "suffixed" ->
         /\ Len(seg) >= 3
         /\ seg[Len(seg) - 1] = pat.parts[1]
         /\ seg[Len(seg)] \in pat.exts
    [] OTHER -> FALSE

\* minimatch: ** stands for zero or more whole segments
RECURSIVE GlobMatches(_, _)
GlobMatches(pattern, path) ==
  IF pattern = <<>> THEN path = <<>>
  ELSE IF Head(pattern).kind = "globstar"
       THEN \/ GlobMatches(Tail(pattern), path)
            \/ (path # <<>> /\ GlobMatches(pattern, Tail(path)))
  ELSE /\ path # <<>>
       /\ SegmentMatches(Head(pattern), Head(path))
       /\ GlobMatches(Tail(pattern), Tail(path))

\* ignore: ['node_modules/**', 'dist/**', 'build/**']
IgnorePatterns ==
  { <<Literal(<<"node_modules">>), Globstar>>,
    <<Literal(<<"dist">>), Globstar>>,
    <<Literal(<<"build">>), Globstar>> }

Ignored(path) == \E ig \in IgnorePatterns : GlobMatches(ig, path)

\* the paths glob resolves for one pattern, in directory order
RECURSIVE Glob(_, _)
Glob(pattern, entries) ==
  IF entries = <<>> THEN <<>>
  ELSE (IF GlobMatches(pattern, Head(entries).path) /\ ~Ignored(Head(entries).path)
        THEN <<Head(entries).path>> ELSE <<>>)
       \o Glob(pattern, Tail(entries))

\* [...new Set(allFiles)]: first occurrences, in order
RECURSIVE Unique(_)
Unique(paths) ==
  IF paths = <<>> THEN <<>>
  ELSE LET front == Unique(SubSeq(paths, 1, Len(paths) - 1))
           last == paths[Len(paths)]
       IN  IF \E n \in 1..Len(front) : front[n] = last THEN front
           ELSE Append(front, last)

RECURSIVE AllFiles(_, _)
AllFiles(patterns, entries) ==
  IF patterns = <<>> THEN <<>>
  ELSE Glob(Head(patterns), entries) \o AllFiles(Tail(patterns), entries)

\* allFiles returned as collected, without the Set
discoverTestFilesAll(patterns, entries) == AllFiles(patterns, entries)

discoverTestFiles(patterns, entries) == Unique(AllFiles(patterns, entries))

\* ['**/*.eval.{js,ts}', '**/*.test.{js,ts}']
DefaultPatterns ==
  << <<Globstar, Suffixed("eval", {"js", "ts"})>>,
     <<Globstar, Suffixed("test", {"js", "ts"})>> >>

\* pattern lists a caller may pass
PatternLists ==
  { DefaultPatterns,
    << <<Globstar, Suffixed("spec", {"ts"})>> >>,
    << <<Globstar, Suffixed("eval", {"js", "ts"})>>,
       <<Globstar, Suffixed("eval", {"ts"})>> >> }

\* ------------------------------------------------------------------------
\* Structural strategy: the syntax tree parser.parse(content) yields.
\* A span is <<startIndex, endIndex>>; NoSpan is a null node.
\* ------------------------------------------------------------------------
NoSpan == <<-1, -1>>

Node(type, span, row, name, body, bodyChildren, function, arguments, children) ==
  [type |-> type, span |-> span, row |-> row, name |-> name, body |-> body,
   bodyChildren |-> bodyChildren, function |-> function, arguments |-> arguments,
   children |-> children]

\* the named and anonymous children of a statement_block
BodyChildren(body) ==
  IF body = BodySimple THEN <<"{", "}">> ELSE <<"{", "return_statement", "}">>

\* evalops_test(<config>) inside a decorator, at offset o
DecoratorCallNode(item, o, row) ==
  LET c == Len(item.config)
  IN  Node("call_expression", <<o, o + 3 + c>>, row, NoSpan, NoSpan, <<>>,
           <<o, o + 1>>,
           << <<o + 1, o + 2>>, <<o + 2, o + 2 + c>>, <<o + 2 + c, o + 3 + c>> >>,
           <<>>)

DecoratorNode(item, o, row) ==
  Node("decorator", <<o, o + Len(AnnotationText(item))>>, row, NoSpan, NoSpan, <<>>,
       NoSpan, <<>>, <<DecoratorCallNode(item, o + 1, row)>>)

FunctionNode(item, o, row) ==
  LET b == o + 6 + Len(item.params)
  IN  Node("function_declaration", <<o, o + Len(FunctionText(item))>>, row,
           <<o + 2, o + 3>>, <<b, b + Len(item.body)>>, BodyChildren(item.body),
           NoSpan, <<>>, <<>>)

\* evalops_test(<config>, function() {...}) at offset o: the children of the
\* arguments node are ( <config> , <function> )
CallNode(item, o, row) ==
  LET c == Len(item.config)
      f == Len(FunctionValueText(item))
  IN  Node("call_expression", <<o, o + c + f + 5>>, row, NoSpan, NoSpan, <<>>,
           <<o, o + 1>>,
           << <<o + 1, o + 2>>, <<o + 2, o + 2 + c>>, <<o + 2 + c, o + 3 + c>>,
              <<o + 4 + c, o + 4 + c + f>>, <<o + 4 + c + f, o + 5 + c + f>> >>,
           <<>>)

ItemNodes(item, o, row) ==
  CASE item.form = "annotated" ->
         <<DecoratorNode(item, o, row),
           FunctionNode(item, o + Len(AnnotationText(item)) + 1, row + 1)>>
    [] item.form = "annotation" -> <<DecoratorNode(item, o, row)>>
    [] item.form = "function" -> <<FunctionNode(item, o, row)>>
    [] item.form = "call" ->
         <<Node("expression_statement", <<o, o + Len(CallText(item))>>, row, NoSpan,
                NoSpan, <<>>, NoSpan, <<>>, <<CallNode(item, o, row)>>)>>

RECURSIVE ProgramChildren(_, _)
ProgramChildren(items, n) ==
  IF n > Len(items) THEN <<>>
  ELSE ItemNodes(items[n], ItemOffset(items, n),
                 LineNumberAt(FileText(items), ItemOffset(items, n)) - 1)
       \o ProgramChildren(items, n + 1)

SyntaxTree(items) ==
  Node("program", <<0, Len(FileText(items))>>, 0, NoSpan, NoSpan, <<>>, NoSpan, <<>>,
       ProgramChildren(items, 1))

Slice(content, span) == Substring(content, span[1], span[2])

\* ------------------------------------------------------------------------
\* TestDiscovery (structural strategy)
\* ------------------------------------------------------------------------
EmptyObject == ObjVal(<<>>)
NoCase == <<>>

\* the greedy {.*} followed by \s*\) : the last '}' at or before e whose next
\* non-space lexeme is ')'
RECURSIVE GreedyClose(_, _, _)
GreedyClose(text, e, low) ==
  IF e < low THEN -1
  ELSE IF Ch(text, e) = "}" /\ Ch(text, SkipSpace(text, e + 1)) = ")" THEN e
  ELSE GreedyClose(text, e - 1, low)

\* decoratorText.match(/@evalops_test\s*\(\s*({.*})\s*\)/s) anchored at s
GreedyMatchAt(text, s) ==
  IF Ch(text, s) # "@" \/ Ch(text, s + 1) # "evalops_test" THEN NoMatch
  ELSE LET p == SkipSpace(text, s + 2)
       IN  IF Ch(text, p) # "(" THEN NoMatch
           ELSE LET b == SkipSpace(text, p + 1)
                IN  IF Ch(text, b) # "{" THEN NoMatch
                    ELSE LET e == GreedyClose(text, Len(text) - 1, b + 1)
                         IN  IF e = -1 THEN NoMatch
                             ELSE [ok |-> TRUE, index |-> s, from |-> b, to |-> e + 1,
                                   lastIndex |-> SkipSpace(text, e + 1) + 1]

RECURSIVE GreedyMatch(_, _)
GreedyMatch(text, s) ==
  IF s >= Len(text) THEN NoMatch
  ELSE LET m == GreedyMatchAt(text, s)
       IN  IF m.ok THEN m ELSE GreedyMatch(text, s + 1)

parseDecorator(decoratorText) ==
  LET m == GreedyMatch(decoratorText, 0)
  IN  IF ~m.ok THEN EmptyObject
      ELSE LET r == EvalLiteral(Substring(decoratorText, m.from, m.to))
           IN  IF r.ok THEN r.val ELSE EmptyObject

\* walks node.previousSibling back from position n of its parent's children;
\* <<>> is null, <<config>> a decorator
RECURSIVE findEvalOpsDecorator(_, _, _)
findEvalOpsDecorator(siblings, n, content) ==
  IF n < 1 THEN <<>>
  ELSE IF /\ siblings[n].type = "decorator"
          /\ \E k \in 1..Len(Slice(content, siblings[n].span)) :
               Slice(content, siblings[n].span)[k] = "evalops_test"
       THEN <<parseDecorator(Slice(content, siblings[n].span))>>
  ELSE findEvalOpsDecorator(siblings, n - 1, content)

\* the loop over the children of the body; no library body starts with a
\* comment or a string statement, so the loop ends at its first child
RECURSIVE extractDocstring(_, _)
extractDocstring(bodyChildren, i) ==
  IF i > Len(bodyChildren) THEN UndefVal
  ELSE IF bodyChildren[i] = "comment" THEN StrVal(<<"comment">>)
  ELSE IF bodyChildren[i] = "string_statement" THEN StrVal(<<"string">>)
  ELSE UndefVal

extractTestCase(node, decorator, content, filePath) ==
  IF node.name = NoSpan THEN NoCase
  ELSE LET functionName == Slice(content, node.name)
           declared == Get(decorator, "description")
           description == IF node.body # NoSpan /\ ~Truthy(declared)
                          THEN extractDocstring(node.bodyChildren, 1) ELSE declared
           codeContent == IF node.body # NoSpan THEN Slice(content, node.body) ELSE <<>>
       IN  <<[description |-> OrElse(description, StrVal(<<"Test case for ">> \o functionName)),
              vars |-> MergeVars(codeContent, Get(decorator, "vars")),
              assert |-> OrElse(Get(decorator, "asserts"), EmptyArray),
              prompt |-> Get(decorator, "prompt"),
              skip |-> Get(decorator, "skip"),
              tags |-> Get(decorator, "tags"),
              metadata |-> [filePath |-> filePath,
                            functionName |-> functionName,
                            lineNumber |-> node.row + 1,
                            description |-> description,
                            tags |-> Get(decorator, "tags")]]>>

\* argsNode.child(i), 0-based; NoSpan when out of range
ArgChild(node, i) == IF i < Len(node.arguments) THEN node.arguments[i + 1] ELSE NoSpan

extractTestCaseFromCall(node, content, filePath) ==
  IF node.function = NoSpan THEN NoCase
  ELSE IF Slice(content, node.function) # <<"evalops_test">> THEN NoCase
  ELSE IF Len(node.arguments) < 2 THEN NoCase
  ELSE LET configArg == ArgChild(node, 0)
           testFuncArg == ArgChild(node, 2)
       IN  IF configArg = NoSpan \/ testFuncArg = NoSpan THEN NoCase
           ELSE LET r == EvalLiteral(Slice(content, configArg))
                IN  IF ~r.ok THEN NoCase
                    ELSE <<TestCase(r.val, Slice(content, testFuncArg),
                                    <<"Inline test case">>, filePath, <<"inline_test">>,
                                    node.row + 1)>>

RECURSIVE traverseNode(_, _, _, _)
RECURSIVE traverseChildren(_, _, _, _)

\* node is siblings[n]
traverseNode(siblings, n, content, filePath) ==
  LET node == siblings[n]
      decorator == findEvalOpsDecorator(siblings, n - 1, content)
  IN  (IF node.type \in {"function_declaration", "method_definition"} /\ decorator # <<>>
       THEN extractTestCase(node, decorator[1], content, filePath) ELSE <<>>)
      \o (IF node.type = "call_expression"
          THEN extractTestCaseFromCall(node, content, filePath) ELSE <<>>)
      \o traverseChildren(node.children, 1, content, filePath)

traverseChildren(children, i, content, filePath) ==
  IF i > Len(children) THEN <<>>
  ELSE traverseNode(children, i, content, filePath)
       \o traverseChildren(children, i + 1, content, filePath)

\* TestDiscovery.parseTestFile once the init guard has passed
structuralParse(items, filePath) ==
  traverseNode(<<SyntaxTree(items)>>, 1, FileText(items), filePath)

\* ------------------------------------------------------------------------
\* State
\* ------------------------------------------------------------------------
\* tree: the files below the working directory, in directory order
\* text: the text handed to a boundary extractor
\* parser, jsLanguage, tsLanguage: the fields of TestDiscovery
\* ret: the outcome of the last call
\* yaml: the evaluation configuration file the commands read
\* disk: ~/.evalops/config.json
\* env: process.env
\* now: Date.now(), in milliseconds
\* poll: the frame of the running pollTestRun call
\* budgetConfig: the config field of the BudgetValidator
VARIABLES tree, text, parser, jsLanguage, tsLanguage, ret, yaml, disk, env, now, poll, budgetConfig

vars == <<tree, text, parser, jsLanguage, tsLanguage, ret, yaml, disk, env, now, poll, budgetConfig>>

\* what the discovery engine never touches
surroundings == <<yaml, disk, env, now, poll, budgetConfig>>

NoFile == [kind |-> "absent"]
\* the value of a property or an environment variable that is not set
Undefined == "<undefined>"
NoEnv == [EVALOPS_API_KEY |-> Undefined, EVALOPS_API_URL |-> Undefined]

MaxOtherFiles == 1
MaxText == 5

Dir(name) == <<name>>
FocusPath == <<<<"a", "eval", "ts">>>>
CandidatePaths ==
  << <<Dir("dist"), <<"out", "eval", "js">>>>,
     <<Dir("node_modules"), <<"dep", "eval", "ts">>>>,
     <<Dir("packages"), Dir("node_modules"), <<"dep", "test", "js">>>>,
     FocusPath,
     <<Dir("src"), <<"b", "test", "js">>>>,
     <<Dir("src"), Dir("build"), <<"gen", "test", "ts">>>>,
     <<Dir("src"), <<"c", "ts">>>>,
     <<Dir("src"), <<"d", "spec", "ts">>>> >>

OtherBody == <<Item("call", CfgDescribed, "", NoParams, BodyNested)>>

RECURSIVE Entries(_, _, _)
Entries(present, body, n) ==
  IF n > Len(CandidatePaths) THEN <<>>
  ELSE (IF n \in present
        THEN <<[path |-> CandidatePaths[n],
                items |-> IF CandidatePaths[n] = FocusPath THEN body ELSE OtherBody,
                readable |-> TRUE]>>
        ELSE <<>>)
       \o Entries(present, body, n + 1)

FocusIndex == CHOOSE n \in 1..Len(CandidatePaths) : CandidatePaths[n] = FocusPath

OtherSets ==
  {o \in SUBSET (1..Len(CandidatePaths) \ {FocusIndex}) : Cardinality(o) <= MaxOtherFiles}

\* the bodies the focus file may have beside those other files
BodiesBeside(others) == {b \in FileBodies : others = {} \/ Len(b) < MaxItems}

\* the focus file alone with any body, or beside other files with a shorter one
ReadableTrees ==
  UNION { {Entries(others \cup {FocusIndex}, body, 1) : body \in BodiesBeside(others)} :
            others \in OtherSets }

\* fs.readFileSync throws for the n-th file (removed, or no permission)
Unreadable(entries, n) == [entries EXCEPT ![n].readable = FALSE]

\* every file readable, or one of several files not
Trees ==
  ReadableTrees
    \cup UNION { {Unreadable(t, n) : n \in 1..Len(t)} :
                  t \in {e \in ReadableTrees : Len(e) > 1} }

RECURSIVE SeqsUpTo(_, _)
SeqsUpTo(alphabet, n) ==
  IF n = 0 THEN {<<>>}
  ELSE LET shorter == SeqsUpTo(alphabet, n - 1)
       IN  shorter \cup {Append(t, ch) : t \in shorter, ch \in alphabet}

Texts ==
  SeqsUpTo({"{", "}", "x"}, MaxText)
    \cup {CallText(item) : item \in {it \in Items : it.form = "call"}}

\* at: the position in the tree, or the offset, the call was given
Return(op, at, arg, threw, val) ==
  [op |-> op, at |-> at, arg |-> arg, threw |-> threw, val |-> val]

NoReturn == Return("none", 0, <<>>, FALSE, <<>>)

\* the frame of pollTestRun: where the call stands, its startTime and
\* maxWaitMs, the statuses getTestRun has answered with so far
Frame(pc, startTime, maxWaitMs, seen) ==
  [pc |-> pc, startTime |-> startTime, maxWaitMs |-> maxWaitMs, seen |-> seen]

NotPolling == Frame("idle", 0, 0, <<>>)

\* what yaml.load makes of an empty budget file: undefined
NoBudget == [kind |-> "undefined"]

Init ==
  /\ tree \in Trees
  /\ text = <<>>
  /\ parser = "null"
  /\ jsLanguage = "null"
  /\ tsLanguage = "null"
  /\ ret = NoReturn
  /\ yaml = NoFile
  /\ disk = NoFile
  /\ env = NoEnv
  /\ now = 0
  /\ poll = NotPolling
  /\ budgetConfig = NoBudget

InitStructural ==
  /\ tree \in {t \in Trees : Len(t) = 1}
  /\ text = <<>>
  /\ parser = "null"
  /\ jsLanguage = "null"
  /\ tsLanguage = "null"
  /\ ret = NoReturn
  /\ yaml = NoFile
  /\ disk = NoFile
  /\ env = NoEnv
  /\ now = 0
  /\ poll = NotPolling
  /\ budgetConfig = NoBudget

InitBoundary ==
  /\ tree = <<>>
  /\ text \in Texts
  /\ parser = "null"
  /\ jsLanguage = "null"
  /\ tsLanguage = "null"
  /\ ret = NoReturn
  /\ yaml = NoFile
  /\ disk = NoFile
  /\ env = NoEnv
  /\ now = 0
  /\ poll = NotPolling
  /\ budgetConfig = NoBudget

\* the entry of the tree with that path
EntryOf(path) == CHOOSE n \in 1..Len(tree) : tree[n].path = path

\* ------------------------------------------------------------------------
\* SimpleTestDiscovery
\* ------------------------------------------------------------------------
DiscoverTestFiles(patterns) ==
  /\ ret' = Return("discoverTestFiles", 0, patterns, FALSE, discoverTestFiles(patterns, tree))
  /\ UNCHANGED <<tree, text, parser, jsLanguage, tsLanguage, surroundings>>

ParseTestFile(n) ==
  /\ n \in 1..Len(tree)
  /\ ret' = IF ~tree[n].readable
            THEN Return("parseTestFile", n, <<>>, TRUE, <<>>)
            ELSE Return("parseTestFile", n, <<>>, FALSE,
                        parseTestFile(FileText(tree[n].items), tree[n].path))
  /\ UNCHANGED <<tree, text, parser, jsLanguage, tsLanguage, surroundings>>

\* a file whose parse throws is skipped
RECURSIVE AllTests(_, _)
AllTests(files, n) ==
  IF n > Len(files) THEN <<>>
  ELSE (IF tree[EntryOf(files[n])].readable
        THEN parseTestFile(FileText(tree[EntryOf(files[n])].items), files[n])
        ELSE <<>>)
       \o AllTests(files, n + 1)

\* the loop without its try/catch: the first failing file rejects the call
DiscoverAllTestsUncaught(patterns) ==
  /\ ret' = LET files == discoverTestFiles(patterns, tree)
            IN  IF \E n \in 1..Len(files) : ~tree[EntryOf(files[n])].readable
                THEN Return("discoverAllTests", 0, patterns, TRUE, <<>>)
                ELSE Return("discoverAllTests", 0, patterns, FALSE, AllTests(files, 1))
  /\ UNCHANGED <<tree, text, parser, jsLanguage, tsLanguage, surroundings>>

\* allTests kept from the previous run instead of starting empty
DiscoverAllTestsAccumulating(patterns) ==
  /\ ret' = Return("discoverAllTests", 0, patterns, FALSE,
                   (IF ret.op = "discoverAllTests" THEN ret.val ELSE <<>>)
                     \o AllTests(discoverTestFiles(patterns, tree), 1))
  /\ UNCHANGED <<tree, text, parser, jsLanguage, tsLanguage, surroundings>>

DiscoverAllTests(patterns) ==
  /\ ret' = Return("discoverAllTests", 0, patterns, FALSE,
                   AllTests(discoverTestFiles(patterns, tree), 1))
  /\ UNCHANGED <<tree, text, parser, jsLanguage, tsLanguage, surroundings>>

ExtractFunctionBody(startIndex) ==
  /\ text # <<>>
  /\ ret' = Return("extractFunctionBody", startIndex, <<>>, FALSE,
                   extractFunctionBody(text, startIndex))
  /\ UNCHANGED <<tree, text, parser, jsLanguage, tsLanguage, surroundings>>

ExtractFunctionFromCall(callIndex) ==
  /\ text # <<>>
  /\ ret' = Return("extractFunctionFromCall", callIndex, <<>>, FALSE,
                   extractFunctionFromCall(text, callIndex))
  /\ UNCHANGED <<tree, text, parser, jsLanguage, tsLanguage, surroundings>>

\* ------------------------------------------------------------------------
\* TestDiscovery
\* ------------------------------------------------------------------------
InitOutcomes == {"loaded", "initFails", "jsFails", "tsFails"}

\* the fields initialize() has assigned when it returns or throws
ParserAfter(outcome) == IF outcome = "initFails" THEN parser ELSE "set"
JsAfter(outcome) == IF outcome \in {"initFails", "jsFails"} THEN jsLanguage ELSE "set"
TsAfter(outcome) == IF outcome = "loaded" THEN "set" ELSE tsLanguage

Initialize(outcome) ==
  /\ parser' = ParserAfter(outcome)
  /\ jsLanguage' = JsAfter(outcome)
  /\ tsLanguage' = TsAfter(outcome)
  /\ ret' = Return("initialize", 0, <<>>, outcome # "loaded", <<>>)
  /\ UNCHANGED <<tree, text, surroundings>>

\* a guard that looks at the parser only
InitializedParserOnly(p, js, ts) == p = "set"

Initialized(p, js, ts) == p = "set" /\ js = "set" /\ ts = "set"

StructuralParseTestFile(n) ==
  /\ n \in 1..Len(tree)
  /\ ret' = IF ~Initialized(parser, jsLanguage, tsLanguage) \/ ~tree[n].readable
            THEN Return("structuralParseTestFile", n, <<>>, TRUE, <<>>)
            ELSE Return("structuralParseTestFile", n, <<>>, FALSE,
                        structuralParse(tree[n].items, tree[n].path))
  /\ UNCHANGED <<tree, text, parser, jsLanguage, tsLanguage, surroundings>>

\* a file whose parse throws is skipped
RECURSIVE StructuralAllTests(_, _, _)
StructuralAllTests(files, n, ready) ==
  IF n > Len(files) THEN <<>>
  ELSE (IF ready /\ tree[EntryOf(files[n])].readable
        THEN structuralParse(tree[EntryOf(files[n])].items, files[n]) ELSE <<>>)
       \o StructuralAllTests(files, n + 1, ready)

StructuralDiscoverAllTests(patterns, outcome) ==
  /\ parser' = ParserAfter(outcome)
  /\ jsLanguage' = JsAfter(outcome)
  /\ tsLanguage' = TsAfter(outcome)
  /\ ret' = IF outcome # "loaded"
            THEN Return("structuralDiscoverAllTests", 0, patterns, TRUE, <<>>)
            ELSE Return("structuralDiscoverAllTests", 0, patterns, FALSE,
                        StructuralAllTests(discoverTestFiles(patterns, tree), 1,
                                           Initialized(parser', jsLanguage', tsLanguage')))
  /\ UNCHANGED <<tree, text, surroundings>>

Next ==
  \/ \E patterns \in PatternLists : DiscoverTestFiles(patterns)
  \/ \E n \in 1..Len(tree) : ParseTestFile(n)
  \/ \E patterns \in PatternLists : DiscoverAllTests(patterns)

Spec == Init /\ [][Next]_vars

NextStructural ==
  \/ \E outcome \in InitOutcomes : Initialize(outcome)
  \/ \E n \in 1..Len(tree) : StructuralParseTestFile(n)
  \/ \E outcome \in InitOutcomes : StructuralDiscoverAllTests(DefaultPatterns, outcome)
  \/ \E n \in 1..Len(tree) : ParseTestFile(n)

SpecStructural == InitStructural /\ [][NextStructural]_vars

NextBoundary ==
  \/ \E startIndex \in 0..Len(text) : ExtractFunctionBody(startIndex)
  \/ \E callIndex \in 0..Len(text) : ExtractFunctionFromCall(callIndex)

SpecBoundary == InitBoundary /\ [][NextBoundary]_vars

\* ------------------------------------------------------------------------
\* The evaluation configuration: what yaml.load returns for evalops.yaml.
\* A value carries its JavaScript type in t.
\* ------------------------------------------------------------------------
Absent == [t |-> "missing", s |-> ""]
Str(s) == [t |-> "string", s |-> s]
NotAString == [t |-> "number", s |-> ""]
AbsentNum == [t |-> "missing", n |-> 0]
Num(n) == [t |-> "number", n |-> n]

\* String.prototype.trim on the strings of the model
Trim(s) == IF s = " " THEN "" ELSE s

\* !value for a string-or-missing value
Falsy(v) == v.t = "missing" \/ (v.t = "string" /\ v.s = "")

\* a prompt: a string or a { role, content } object
PromptText(s) == [t |-> "string", s |-> s, role |-> Absent, content |-> Absent]
PromptObject(role, content) == [t |-> "object", s |-> "", role |-> role, content |-> content]

\* the prompts field: missing, a string, an array of prompts, one prompt object
\* or a value of another type
NoPrompts == [t |-> "missing", s |-> "", items |-> <<>>, role |-> Absent, content |-> Absent]
PromptsText(s) == [NoPrompts EXCEPT !.t = "string", !.s = s]
PromptsArray(items) == [NoPrompts EXCEPT !.t = "array", !.items = items]
PromptsObject(role, content) ==
  [NoPrompts EXCEPT !.t = "object", !.role = role, !.content = content]
PromptsNumber == [NoPrompts EXCEPT !.t = "number"]
\* `prompts:` with nothing after it: the key is there and its value is null
PromptsNull == [NoPrompts EXCEPT !.t = "null"]

ProviderText(s) ==
  [t |-> "string", s |-> s, provider |-> Absent, model |-> Absent, temperature |-> AbsentNum]
ProviderObject(provider, model, temperature) ==
  [t |-> "object", s |-> "", provider |-> provider, model |-> model,
   temperature |-> temperature]

\* an array-valued field: missing, an array, or a value of another type
NoList == [t |-> "missing", items |-> <<>>]
List(items) == [t |-> "array", items |-> items]
NotAList == [t |-> "string", items |-> <<>>]

AssertSpec(type, value, weight) == [type |-> type, value |-> value, weight |-> weight]
TestSpec(assert) == [assert |-> assert]

EvaluationConfig(description, version, prompts, providers, tests, defaultAssert, iterations, timeout, outputFormat) ==
  [description |-> description, version |-> version, prompts |-> prompts,
   providers |-> providers, tests |-> tests, defaultAssert |-> defaultAssert,
   iterations |-> iterations, timeout |-> timeout, outputFormat |-> outputFormat]

\* YamlParser.validateConfig: the message thrown, or "" when it returns
validateConfig(config) ==
  IF config.description.t = "missing" THEN "Missing required field: description"
  ELSE IF config.version.t = "missing" THEN "Missing required field: version"
  ELSE IF config.prompts.t = "missing" THEN "Missing required field: prompts"
  ELSE IF config.providers.t = "missing" THEN "Missing required field: providers"
  ELSE IF config.description.t # "string" THEN "description must be a string"
  ELSE IF config.version.t # "string" THEN "version must be a string"
  ELSE IF config.prompts.t = "null" \/ (config.prompts.t = "string" /\ config.prompts.s = "")
       THEN "prompts is required"
  ELSE IF config.providers.t # "array" \/ config.providers.items = <<>>
       THEN "providers must be a non-empty array"
  ELSE IF config.tests.t \notin {"missing", "array"} THEN "tests must be an array"
  ELSE ""

Roles == {"system", "user", "assistant"}

\* the errors one { role, content } object adds
PromptObjectErrors(role, content, missingRole, invalidRole, emptyContent) ==
  (IF Falsy(role) THEN <<missingRole>>
   ELSE IF role.s \notin Roles THEN <<invalidRole>> ELSE <<>>)
  \o (IF content.t # "string" \/ Trim(content.s) = "" THEN <<emptyContent>> ELSE <<>>)

RECURSIVE PromptItemErrors(_, _)
PromptItemErrors(items, i) ==
  IF i > Len(items) THEN <<>>
  ELSE (IF items[i].t = "string"
        THEN (IF Trim(items[i].s) = "" THEN <<"Prompt at index cannot be empty">> ELSE <<>>)
        ELSE IF items[i].t = "object"
        THEN PromptObjectErrors(items[i].role, items[i].content,
                                "Prompt at index missing role", "Invalid role at index",
                                "Prompt at index missing or empty content")
        ELSE <<"Invalid prompt format at index">>)
       \o PromptItemErrors(items, i + 1)

validatePrompts(prompts) ==
  IF prompts.t = "string"
  THEN (IF Trim(prompts.s) = "" THEN <<"Prompt cannot be empty">> ELSE <<>>)
  ELSE IF prompts.t = "array"
  THEN (IF prompts.items = <<>> THEN <<"Prompts array cannot be empty">>
        ELSE PromptItemErrors(prompts.items, 1))
  ELSE IF prompts.t = "object"
  THEN PromptObjectErrors(prompts.role, prompts.content, "Prompt object missing role",
                          "Invalid prompt role", "Prompt object missing or empty content")
  ELSE <<"Invalid prompts format">>

\* validateConfigContent on a configuration validateConfig accepted
ContentErrors(config) ==
  (IF Trim(config.description.s) = "" THEN <<"Description cannot be empty">> ELSE <<>>)
  \o (IF Trim(config.version.s) = "" THEN <<"Version cannot be empty">> ELSE <<>>)
  \o validatePrompts(config.prompts)
  \o (IF config.iterations.t = "number" /\ config.iterations.n < 1
      THEN <<"Iterations must be greater than 0">> ELSE <<>>)
  \o (IF config.timeout.t = "number" /\ config.timeout.n < 1
      THEN <<"Timeout must be greater than 0">> ELSE <<>>)
  \o (IF ~Falsy(config.outputFormat) /\ config.outputFormat.s \notin {"json", "yaml", "csv"}
      THEN <<"Invalid output format">> ELSE <<>>)

ContentWarnings(config) ==
  IF config.version.s # "" /\ config.version.s \notin {"1.0", "2.0"}
  THEN <<"Unsupported version">> ELSE <<>>

\* provider.includes('/') on the provider strings of the model
HasSlash(s) == s \in {"openai/gpt-4", "anthropic/claude-2", "acme/model"}

\* weights and temperatures are in tenths
RECURSIVE validateProviders(_, _)
validateProviders(providers, i) ==
  IF i > Len(providers) THEN <<>>
  ELSE (IF providers[i].t = "string"
        THEN (IF ~HasSlash(providers[i].s)
              THEN <<"Provider at index should include model">> ELSE <<>>)
        ELSE (IF Falsy(providers[i].provider)
              THEN <<"Provider object at index missing provider field">> ELSE <<>>)
             \o (IF Falsy(providers[i].model)
                 THEN <<"Provider object at index missing model field">> ELSE <<>>)
             \o (IF /\ providers[i].temperature.t = "number"
                    /\ (providers[i].temperature.n < 0 \/ providers[i].temperature.n > 20)
                 THEN <<"Provider at index has unusual temperature">> ELSE <<>>))
       \o validateProviders(providers, i + 1)

AssertTypes ==
  {"contains", "not-contains", "equals", "not-equals", "llm-judge", "regex", "json-path",
   "similarity"}

RECURSIVE validateAssertArray(_, _)
validateAssertArray(asserts, i) ==
  IF i > Len(asserts) THEN <<>>
  ELSE (IF Falsy(asserts[i].type) THEN <<"assertion at index missing type">>
        ELSE IF asserts[i].type.s \notin AssertTypes
        THEN <<"assertion at index has unknown type">> ELSE <<>>)
       \o (IF asserts[i].value.t = "missing"
           THEN <<"assertion at index missing value">> ELSE <<>>)
       \o (IF /\ asserts[i].weight.t = "number"
              /\ (asserts[i].weight.n < 0 \/ asserts[i].weight.n > 10)
           THEN <<"assertion at index has invalid weight">> ELSE <<>>)
       \o validateAssertArray(asserts, i + 1)

RECURSIVE TestAssertWarnings(_, _)
TestAssertWarnings(tests, i) ==
  IF i > Len(tests) THEN <<>>
  ELSE (IF tests[i].assert.t = "array"
        THEN validateAssertArray(tests[i].assert.items, 1) ELSE <<>>)
       \o TestAssertWarnings(tests, i + 1)

validateAssertions(config) ==
  (IF config.defaultAssert.t = "array"
   THEN validateAssertArray(config.defaultAssert.items, 1) ELSE <<>>)
  \o (IF config.tests.t = "array" THEN TestAssertWarnings(config.tests.items, 1) ELSE <<>>)

\* ------------------------------------------------------------------------
\* ValidateCommand
\* ------------------------------------------------------------------------
GoodConfig ==
  EvaluationConfig(Str("Test configuration"), Str("1.0"),
                   PromptsArray(<<PromptObject(Str("system"), Str("You are helpful")),
                                  PromptObject(Str("user"), Str("Analyze"))>>),
                   List(<<ProviderText("openai/gpt-4")>>), List(<<>>), NoList,
                   AbsentNum, AbsentNum, Absent)

\* the good configuration, and the good configuration with one field changed
Configs ==
  {GoodConfig}
    \cup {[GoodConfig EXCEPT !.description = v] : v \in {Absent, NotAString, Str(" ")}}
    \cup {[GoodConfig EXCEPT !.version = v] : v \in {Absent, NotAString, Str(""), Str("3.0")}}
    \cup {[GoodConfig EXCEPT !.prompts = v] :
            v \in {NoPrompts, PromptsText(""), PromptsText(" "), PromptsText("Analyze"),
                   PromptsArray(<<>>), PromptsArray(<<PromptText(" ")>>),
                   PromptsArray(<<PromptObject(Absent, Str("Analyze"))>>),
                   PromptsArray(<<PromptObject(Str("robot"), Absent)>>),
                   PromptsArray(<<[PromptText("") EXCEPT !.t = "number"]>>),
                   PromptsObject(Str("user"), Str("Analyze")),
                   PromptsObject(Str("robot"), Str("Analyze")),
                   PromptsObject(Absent, Absent), PromptsNumber, PromptsNull}}
    \cup {[GoodConfig EXCEPT !.providers = v] :
            v \in {NoList, NotAList, List(<<>>), List(<<ProviderText("openai")>>),
                   List(<<ProviderObject(Absent, Absent, Num(30))>>),
                   List(<<ProviderObject(Str("openai"), Str("gpt-4"), Num(7))>>)}}
    \cup {[GoodConfig EXCEPT !.tests = v] :
            v \in {NoList, NotAList, List(<<TestSpec(NoList)>>),
                   List(<<TestSpec(List(<<AssertSpec(Str("contains"), Str("x"), Num(5))>>))>>),
                   List(<<TestSpec(List(<<AssertSpec(Absent, Absent, Num(20))>>))>>)}}
    \cup {[GoodConfig EXCEPT !.defaultAssert = v] :
            v \in {List(<<AssertSpec(Str("fuzzy"), Str("x"), AbsentNum)>>)}}
    \cup {[GoodConfig EXCEPT !.iterations = v] : v \in {Num(0), Num(1)}}
    \cup {[GoodConfig EXCEPT !.timeout = v] : v \in {Num(0), Num(30)}}
    \cup {[GoodConfig EXCEPT !.outputFormat = v] : v \in {Str("json"), Str("xml")}}

\* evalops.yaml: absent, not YAML, a YAML scalar, or a mapping; reference tells
\* whether the mapping holds an '@file' string and whether that file can be read
YamlFiles ==
  {NoFile, [kind |-> "malformed"], [kind |-> "scalar"]}
    \cup {[kind |-> "object", config |-> c, reference |-> r] :
            c \in Configs, r \in {"none", "resolves", "broken"}}

\* step 4 with the absence of test cases counted as an error
DiscoveryFindingsStrict(cases, failed) ==
  [errors |-> IF ~failed /\ Len(cases) = 0
              THEN <<"No test cases found in codebase">> ELSE <<>>,
   warnings |-> IF failed THEN <<"Test discovery error">> ELSE <<>>]

\* step 4: what discovery adds to errors and to warnings
DiscoveryFindings(cases, failed) ==
  [errors |-> <<>>,
   warnings |-> IF failed THEN <<"Test discovery error">>
                ELSE IF Len(cases) = 0 THEN <<"No test cases found in codebase">>
                ELSE <<>>]

\* found: testCases.length
Outcome(threw, message, errors, warnings, found) ==
  [threw |-> threw, message |-> message, errors |-> errors, warnings |-> warnings,
   found |-> found]

\* ValidateCommand.execute on the file, with the result of discoverAllTests()
execute(file, cases, failed) ==
  IF file.kind = "absent" THEN Outcome(TRUE, "Configuration file not found", <<>>, <<>>, 0)
  ELSE IF file.kind = "malformed" THEN Outcome(TRUE, "Failed to parse YAML", <<>>, <<>>, 0)
  ELSE IF file.kind = "scalar"
       THEN Outcome(TRUE, "Configuration must be an object", <<>>, <<>>, 0)
  ELSE IF validateConfig(file.config) # ""
       THEN Outcome(TRUE, validateConfig(file.config), <<>>, <<>>, 0)
  ELSE LET found == DiscoveryFindings(cases, failed)
           errors == ContentErrors(file.config)
                       \o (IF file.reference = "broken"
                           THEN <<"File reference error">> ELSE <<>>)
                       \o found.errors
           warnings == ContentWarnings(file.config)
                         \o found.warnings
                         \o validateProviders(file.config.providers.items, 1)
                         \o validateAssertions(file.config)
       IN  IF errors # <<>>
           THEN Outcome(TRUE, "Validation failed", errors, warnings, Len(cases))
           ELSE Outcome(FALSE, "", errors, warnings, Len(cases))

\* globFails: glob rejects, so discoverAllTests() rejects
Validate(verbose, globFails) ==
  /\ ret' = LET cases == IF globFails THEN <<>>
                         ELSE AllTests(discoverTestFiles(DefaultPatterns, tree), 1)
                outcome == execute(yaml, cases, globFails)
            IN  Return("validate", 0, <<verbose, globFails>>, outcome.threw, outcome)
  /\ UNCHANGED <<tree, text, parser, jsLanguage, tsLanguage, surroundings>>

InitCommand ==
  /\ tree \in {t \in ReadableTrees : Len(t) = 1 /\ Len(t[1].items) <= 1}
  /\ text = <<>>
  /\ parser = "null"
  /\ jsLanguage = "null"
  /\ tsLanguage = "null"
  /\ ret = NoReturn
  /\ yaml \in YamlFiles
  /\ disk = NoFile
  /\ env = NoEnv
  /\ now = 0
  /\ poll = NotPolling
  /\ budgetConfig = NoBudget

NextCommand ==
  \E verbose \in BOOLEAN, globFails \in BOOLEAN : Validate(verbose, globFails)

SpecCommand == InitCommand /\ [][NextCommand]_vars

\* ------------------------------------------------------------------------
\* YamlParser.parseFile and parseString. A message is the sequence of the
\* parts it is concatenated from.
\* ------------------------------------------------------------------------
ConfigPath == "evalops.yaml"

\* what is at the path: the files of YamlFiles, a YAML sequence, or something
\* readFileSync fails on for another reason than ENOENT
Documents == YamlFiles \cup {[kind |-> "sequence"], [kind |-> "unreadable"]}

Parsed(threw, message, value) == [threw |-> threw, message |-> message, value |-> value]

\* the message of what yaml.load or validateConfig throws on a document, or ""
LoadAndValidate(document) ==
  IF document.kind = "malformed" THEN "YAMLException"
  ELSE IF document.kind = "scalar" THEN "Configuration must be an object"
  ELSE IF document.kind = "sequence" THEN "Missing required field: description"
  ELSE validateConfig(document.config)

\* parseString without its catch: what validateConfig throws goes to the caller
parseStringUnwrapped(document) ==
  IF LoadAndValidate(document) # ""
  THEN Parsed(TRUE, <<LoadAndValidate(document)>>, <<>>)
  ELSE Parsed(FALSE, <<>>, document.config)

parseString(document) ==
  IF LoadAndValidate(document) # ""
  THEN Parsed(TRUE, <<"Failed to parse YAML: ", LoadAndValidate(document)>>, <<>>)
  ELSE Parsed(FALSE, <<>>, document.config)

\* the catch of parseFile also takes what parseString throws. isError is
\* `error instanceof Error` for what readFileSync throws: true in node, false
\* where fs comes from another realm than the module (the jest sandbox)
parseFile(filePath, document, isError) ==
  IF document.kind = "absent" /\ isError
  THEN Parsed(TRUE, <<"Configuration file not found: ", filePath>>, <<>>)
  ELSE IF document.kind \in {"absent", "unreadable"}
  THEN Parsed(TRUE, <<"Failed to read configuration file: ", "errno">>, <<>>)
  ELSE IF parseString(document).threw
  THEN Parsed(TRUE, <<"Failed to read configuration file: ">> \o parseString(document).message,
              <<>>)
  ELSE parseString(document)

ParseFile(isError) ==
  /\ ret' = Return("parseFile", 0, <<ConfigPath, isError>>,
                   parseFile(ConfigPath, yaml, isError).threw,
                   parseFile(ConfigPath, yaml, isError))
  /\ UNCHANGED <<tree, text, parser, jsLanguage, tsLanguage, surroundings>>

\* parseString on the content of the file
ParseString ==
  /\ yaml.kind \notin {"absent", "unreadable"}
  /\ ret' = Return("parseString", 0, yaml, parseString(yaml).threw, parseString(yaml))
  /\ UNCHANGED <<tree, text, parser, jsLanguage, tsLanguage, surroundings>>

InitYaml ==
  /\ tree = <<>>
  /\ text = <<>>
  /\ parser = "null"
  /\ jsLanguage = "null"
  /\ tsLanguage = "null"
  /\ ret = NoReturn
  /\ yaml \in Documents
  /\ disk = NoFile
  /\ env = NoEnv
  /\ now = 0
  /\ poll = NotPolling
  /\ budgetConfig = NoBudget

NextYaml ==
  \/ \E isError \in BOOLEAN : ParseFile(isError)
  \/ ParseString

SpecYaml == InitYaml /\ [][NextYaml]_vars

\* ------------------------------------------------------------------------
\* YamlParser.resolveFileReferences. Configurations are values of the
\* literal evaluator's shape; a string is the sequence of its parts, a path
\* the sequence of its segments with "/" first when it is absolute. In this
\* specification disk maps the paths of files to their content.
\* ------------------------------------------------------------------------
NumVal == [t |-> "number", s |-> <<>>, props |-> <<>>]
NullVal == [t |-> "null", s |-> <<>>, props |-> <<>>]

Cwd == <<"/", "work">>
Missing == <<"<ENOENT>">>

IsAbsolute(p) == p # <<>> /\ p[1] = "/"

\* path.resolve(basePath, filePath)
PathResolve(basePath, filePath) ==
  IF IsAbsolute(filePath) THEN filePath
  ELSE (IF IsAbsolute(basePath) THEN basePath ELSE Cwd \o basePath) \o filePath

\* readFileSync succeeds: a file is there (a directory is not in disk)
CanRead(files, fullPath) == fullPath \in DOMAIN files /\ files[fullPath] # Missing

Blank(c) == c \in {" ", "\n", "\t"}

\* String.prototype.trim
RECURSIVE TrimText(_)
TrimText(content) ==
  IF content = <<>> THEN <<>>
  ELSE IF Blank(Head(content)) THEN TrimText(Tail(content))
  ELSE IF Blank(content[Len(content)]) THEN TrimText(SubSeq(content, 1, Len(content) - 1))
  ELSE content

\* JSON.parse(JSON.stringify(value)): a property holding undefined is
\* dropped, an array element holding undefined becomes null
RECURSIVE JsonCopy(_)
RECURSIVE JsonCopyProps(_, _, _)
JsonCopyProps(props, n, inArray) ==
  IF n > Len(props) THEN <<>>
  ELSE (IF props[n].val.t = "undefined"
        THEN (IF inArray THEN <<[key |-> "", val |-> NullVal]>> ELSE <<>>)
        ELSE <<[key |-> props[n].key, val |-> JsonCopy(props[n].val)]>>)
       \o JsonCopyProps(props, n + 1, inArray)

JsonCopy(value) ==
  IF value.t \in {"object", "array"}
  THEN [value EXCEPT !.props = JsonCopyProps(value.props, 1, value.t = "array")]
  ELSE value

Resolved(threw, message, value) == [threw |-> threw, message |-> message, value |-> value]

StartsWithAt(str) == str # <<>> /\ str[1] = "@"

\* resolveValue; resolveEach is value.map(resolveValue) and the loop over
\* Object.entries(value), which stop at the first throw
RECURSIVE resolveValue(_, _, _)
RECURSIVE resolveEach(_, _, _, _)
resolveEach(props, n, basePath, files) ==
  IF n > Len(props) THEN Resolved(FALSE, <<>>, <<>>)
  ELSE LET first == resolveValue(props[n].val, basePath, files)
       IN  IF first.threw THEN first
           ELSE LET rest == resolveEach(props, n + 1, basePath, files)
                IN  IF rest.threw THEN rest
                    ELSE Resolved(FALSE, <<>>,
                                  <<[key |-> props[n].key, val |-> first.value]>>
                                    \o rest.value)

\* resolveValue that looks at the value it is given and not inside it
resolveValueShallow(value, basePath, files) ==
  IF value.t = "string" /\ StartsWithAt(value.s)
  THEN (IF CanRead(files, PathResolve(basePath, Tail(value.s)))
        THEN Resolved(FALSE, <<>>,
                      StrVal(TrimText(files[PathResolve(basePath, Tail(value.s))])))
        ELSE Resolved(TRUE, <<"Failed to read referenced file: ", Tail(value.s)>>, <<>>))
  ELSE Resolved(FALSE, <<>>, value)

resolveValue(value, basePath, files) ==
  IF value.t = "string" /\ StartsWithAt(value.s)
  THEN (IF CanRead(files, PathResolve(basePath, Tail(value.s)))
        THEN Resolved(FALSE, <<>>,
                      StrVal(TrimText(files[PathResolve(basePath, Tail(value.s))])))
        ELSE Resolved(TRUE, <<"Failed to read referenced file: ", Tail(value.s)>>, <<>>))
  ELSE IF value.t \in {"array", "object"}
  THEN LET each == resolveEach(value.props, 1, basePath, files)
       IN  IF each.threw THEN each
           ELSE Resolved(FALSE, <<>>, [value EXCEPT !.props = each.value])
  ELSE Resolved(FALSE, <<>>, value)

resolveFileReferences(config, basePath, files) ==
  resolveValue(JsonCopy(config), basePath, files)

\* the configurations of the tests and of the README, with the prompts taken
\* from these values
Leaves ==
  {StrVal(<<"@", "a.txt">>), StrVal(<<"@", "/", "b.txt">>), StrVal(<<"@">>),
   StrVal(<<"Regular", "@", "x">>), NumVal}

Message(content) ==
  ObjVal(<<[key |-> "role", val |-> StrVal(<<"system">>)], [key |-> "content", val |-> content]>>)

PromptValues ==
  Leaves
    \cup {Message(l) : l \in Leaves}
    \cup {ArrVal(<<[key |-> "", val |-> l]>>) : l \in Leaves}
    \cup {ArrVal(<<[key |-> "", val |-> ArrVal(<<[key |-> "", val |-> l]>>)]>>) : l \in Leaves}
    \cup {ArrVal(<<[key |-> "", val |-> Message(l)], [key |-> "", val |-> Message(m)]>>) :
            l \in Leaves, m \in Leaves}

ReferenceConfigs ==
  {ObjVal(<<[key |-> "description", val |-> StrVal(<<"Test">>)],
            [key |-> "tests", val |-> tests],
            [key |-> "prompts", val |-> prompts]>>) :
     tests \in {UndefVal, ArrVal(<<>>)}, prompts \in PromptValues}

BasePaths == {<<>>, <<"/", "proj">>}
FilePaths == {<<"/", "work", "a.txt">>, <<"/", "proj", "a.txt">>, <<"/", "b.txt">>}
FileContents == {Missing, <<" ", "Analyze", "\n">>, <<"@", "a.txt">>}

\* yaml holds the object the caller passes in
ResolveFileReferences(basePath) ==
  /\ yaml.kind = "value"
  /\ ret' = LET resolved == resolveFileReferences(yaml.value, basePath, disk)
            IN  Return("resolveFileReferences", 0, [config |-> yaml.value, basePath |-> basePath],
                       resolved.threw, resolved)
  /\ UNCHANGED <<tree, text, parser, jsLanguage, tsLanguage, surroundings>>

InitReferences ==
  /\ tree = <<>>
  /\ text = <<>>
  /\ parser = "null"
  /\ jsLanguage = "null"
  /\ tsLanguage = "null"
  /\ ret = NoReturn
  /\ yaml \in {[kind |-> "value", value |-> c] : c \in ReferenceConfigs}
  /\ disk \in [FilePaths -> FileContents]
  /\ env = NoEnv
  /\ now = 0
  /\ poll = NotPolling
  /\ budgetConfig = NoBudget

NextReferences == \E basePath \in BasePaths : ResolveFileReferences(basePath)

SpecReferences == InitReferences /\ [][NextReferences]_vars

\* ------------------------------------------------------------------------
\* InitCommand: yaml is what is at ./evalops.yaml
\* ------------------------------------------------------------------------
TemplatePrompts(system, user) ==
  PromptsArray(<<PromptObject(Str("system"), Str(system)), PromptObject(Str("user"), Str(user))>>)

\* getTemplate
getTemplate(template) ==
  IF template = "basic"
  THEN EvaluationConfig(Str("Basic EvalOps evaluation"), Str("1.0"),
                        TemplatePrompts("You are a helpful assistant.",
                                        "Analyze the following code: {{code}}"),
                        List(<<ProviderText("openai/gpt-4")>>), List(<<>>),
                        List(<<AssertSpec(Str("contains"), Str("analysis"), Num(5)),
                               AssertSpec(Str("llm-judge"), Str("Is the analysis accurate?"),
                                          Num(8))>>),
                        Num(1), Num(60), Str("json"))
  ELSE EvaluationConfig(Str("Advanced EvalOps evaluation with multiple providers"), Str("1.0"),
                        TemplatePrompts("You are an expert code reviewer and software architect.",
                                        "Provide a comprehensive analysis"),
                        List(<<ProviderText("openai/gpt-4"), ProviderText("anthropic/claude-2"),
                               ProviderObject(Str("openai"), Str("gpt-3.5-turbo"), Num(7))>>),
                        List(<<>>),
                        List(<<AssertSpec(Str("contains"), Str("quality"), Num(3)),
                               AssertSpec(Str("contains"), Str("improvement"), Num(3)),
                               AssertSpec(Str("llm-judge"), Str("Does the analysis cover"), Num(9)),
                               AssertSpec(Str("regex"), Str("security|performance"), Num(4))>>),
                        Num(3), Num(120), Str("json"))

\* the assertion interactiveSetup builds for a selected type
DefaultAssert(assertType) ==
  IF assertType = "contains" THEN AssertSpec(Str("contains"), Str("summary"), Num(5))
  ELSE IF assertType = "llm-judge"
  THEN AssertSpec(Str("llm-judge"), Str("Is the analysis accurate and helpful?"), Num(8))
  ELSE IF assertType = "regex" THEN AssertSpec(Str("regex"), Str("function|class|method"), Num(3))
  ELSE AssertSpec(Str("json-path"), Str("$.summary"), Num(4))

RECURSIVE DefaultAsserts(_)
DefaultAsserts(types) ==
  IF types = <<>> THEN <<>> ELSE <<DefaultAssert(Head(types))>> \o DefaultAsserts(Tail(types))

RECURSIVE ProviderTexts(_)
ProviderTexts(names) ==
  IF names = <<>> THEN <<>> ELSE <<ProviderText(Head(names))>> \o ProviderTexts(Tail(names))

\* what inquirer.prompt resolves with; customProvider is "" when not asked
Answers(description, providers, customProvider, defaultAsserts) ==
  [rejects |-> FALSE, description |-> description, providers |-> providers,
   customProvider |-> customProvider, defaultAsserts |-> defaultAsserts]

\* the prompt fails
NoAnswers == [Answers("", <<>>, "", <<>>) EXCEPT !.rejects = TRUE]

\* the configuration interactiveSetup builds from the answers
interactiveSetup(answers) ==
  LET chosen == SelectSeq(answers.providers, LAMBDA name : name # "custom")
      providers == IF answers.customProvider # "" THEN Append(chosen, answers.customProvider)
                   ELSE chosen
      defaultAsserts == DefaultAsserts(answers.defaultAsserts)
  IN  EvaluationConfig(Str(answers.description), Str("1.0"),
                       TemplatePrompts("You are a helpful assistant.",
                                       "Analyze the following code: {{code}}"),
                       List(ProviderTexts(providers)), List(<<>>),
                       IF defaultAsserts # <<>> THEN List(defaultAsserts) ELSE NoList,
                       Num(1), Num(60), Str("json"))

\* the file YamlParser.writeFile leaves at the path
WrittenFile(config) == [kind |-> "object", config |-> config, reference |-> "none"]

InitOptions(force, template) == [force |-> force, template |-> template]

\* the first test of execute never stopping the run
AlreadyThereIgnored(file, options) == FALSE

\* fs.existsSync(configPath) && !options.force
AlreadyThere(file, options) == file.kind # "absent" /\ ~options.force

\* InitCommand.execute. writeFails: stringify or the write throws
InitExecute(options, answers, writeFails) ==
  IF AlreadyThere(yaml, options)
  THEN /\ ret' = Return("init", 0, options, FALSE, "exists")
       /\ UNCHANGED <<tree, text, parser, jsLanguage, tsLanguage, surroundings>>
  ELSE IF options.template = "none" /\ answers.rejects
  THEN /\ ret' = Return("init", 0, options, TRUE, "prompt")
       /\ UNCHANGED <<tree, text, parser, jsLanguage, tsLanguage, surroundings>>
  ELSE IF writeFails
  THEN /\ ret' = Return("init", 0, options, TRUE, "Failed to write configuration file")
       /\ UNCHANGED <<tree, text, parser, jsLanguage, tsLanguage, surroundings>>
  ELSE /\ yaml' = WrittenFile(IF options.template # "none" THEN getTemplate(options.template)
                               ELSE interactiveSetup(answers))
       /\ ret' = Return("init", 0, options, FALSE, "created")
       /\ UNCHANGED <<tree, text, parser, jsLanguage, tsLanguage, disk, env, now, poll, budgetConfig>>

PromptOutcomes ==
  {NoAnswers}
    \cup {Answers("Interactive test", <<"openai/gpt-4">>, "", asserts) :
            asserts \in {<<>>, <<"contains", "llm-judge">>}}
    \cup {Answers("Interactive test", <<"anthropic/claude-2", "custom">>, "acme/model",
                   <<"regex">>)}

InitInit ==
  /\ tree = <<>>
  /\ text = <<>>
  /\ parser = "null"
  /\ jsLanguage = "null"
  /\ tsLanguage = "null"
  /\ ret = NoReturn
  /\ yaml \in Documents
  /\ disk = NoFile
  /\ env = NoEnv
  /\ now = 0
  /\ poll = NotPolling
  /\ budgetConfig = NoBudget

NextInit ==
  \E force \in BOOLEAN, template \in {"none", "basic", "advanced"}, answers \in PromptOutcomes,
     writeFails \in BOOLEAN :
    InitExecute(InitOptions(force, template), answers, writeFails)

SpecInit == InitInit /\ [][NextInit]_vars

\* ------------------------------------------------------------------------
\* ConfigManager: ~/.evalops/config.json and process.env
\* A CLIConfig object is a function from the names of its properties to their
\* values; a property that is not set is not in its domain.
\* ------------------------------------------------------------------------
EmptyConfig == <<>>

\* config.<name>
Field(config, name) == IF name \in DOMAIN config THEN config[name] ELSE Undefined

\* the object literal { apiKey, apiUrl, debug } with undefined for what is left out
CLIConfig(apiKey, apiUrl, debug) == [apiKey |-> apiKey, apiUrl |-> apiUrl, debug |-> debug]

\* JSON.stringify: a property whose value is undefined is not written
JsonStringify(config) ==
  [kind |-> "object",
   fields |-> [name \in {n \in DOMAIN config : config[n] # Undefined} |-> config[name]]]

\* JSON.parse of the content of a file that holds an object
JsonParse(file) == file.fields

\* ConfigManager.load: {} when the file is absent or cannot be parsed
load(file) == IF file.kind \in {"absent", "corrupt"} THEN EmptyConfig ELSE JsonParse(file)

\* config.<name> = value
Assign(config, name, value) ==
  [n \in DOMAIN config \cup {name} |-> IF n = name THEN value ELSE config[n]]

\* !value for a string or undefined
Unset(value) == value \in {Undefined, ""}

DefaultApiUrl == "https://api.evalops.dev"

\* the file consulted before the environment
getApiKeyFileFirst(environment, file) ==
  IF ~Unset(Field(load(file), "apiKey")) THEN Field(load(file), "apiKey")
  ELSE environment.EVALOPS_API_KEY

getApiKey(environment, file) ==
  IF ~Unset(environment.EVALOPS_API_KEY) THEN environment.EVALOPS_API_KEY
  ELSE Field(load(file), "apiKey")

getApiUrl(environment, file) ==
  IF ~Unset(environment.EVALOPS_API_URL) THEN environment.EVALOPS_API_URL
  ELSE IF ~Unset(Field(load(file), "apiUrl")) THEN Field(load(file), "apiUrl")
  ELSE DefaultApiUrl

\* a fresh object written instead of the loaded one
setApiKeyAlone(file, apiKey) == JsonStringify(Assign(EmptyConfig, "apiKey", apiKey))

\* the file setApiKey leaves
setApiKey(file, apiKey) == JsonStringify(Assign(load(file), "apiKey", apiKey))

setApiUrl(file, apiUrl) == JsonStringify(Assign(load(file), "apiUrl", apiUrl))

ApiKeys == {"", "file-key"}
ApiUrls == {"", "https://file.api.com"}

\* the configurations a caller saves
CLIConfigs ==
  {CLIConfig(k, u, d) : k \in ApiKeys \cup {Undefined}, u \in ApiUrls \cup {Undefined},
                        d \in {"true", Undefined}}

Environments ==
  [EVALOPS_API_KEY : {Undefined, "", "env-key"},
   EVALOPS_API_URL : {Undefined, "", "https://env.api.com"}]

\* config.json: absent, not JSON, or what a save wrote
ConfigFiles ==
  {NoFile, [kind |-> "corrupt"]} \cup {JsonStringify(c) : c \in CLIConfigs}

Load ==
  /\ ret' = Return("load", 0, <<>>, FALSE, load(disk))
  /\ UNCHANGED <<tree, text, parser, jsLanguage, tsLanguage, surroundings>>

Save(config) ==
  /\ disk' = JsonStringify(config)
  /\ ret' = Return("save", 0, config, FALSE, <<>>)
  /\ UNCHANGED <<tree, text, parser, jsLanguage, tsLanguage, yaml, env, now, poll, budgetConfig>>

GetApiKey ==
  /\ ret' = Return("getApiKey", 0, <<>>, FALSE, getApiKey(env, disk))
  /\ UNCHANGED <<tree, text, parser, jsLanguage, tsLanguage, surroundings>>

GetApiUrl ==
  /\ ret' = Return("getApiUrl", 0, <<>>, FALSE, getApiUrl(env, disk))
  /\ UNCHANGED <<tree, text, parser, jsLanguage, tsLanguage, surroundings>>

SetApiKey(apiKey) ==
  /\ disk' = setApiKey(disk, apiKey)
  /\ ret' = Return("setApiKey", 0, apiKey, FALSE, <<>>)
  /\ UNCHANGED <<tree, text, parser, jsLanguage, tsLanguage, yaml, env, now, poll, budgetConfig>>

SetApiUrl(apiUrl) ==
  /\ disk' = setApiUrl(disk, apiUrl)
  /\ ret' = Return("setApiUrl", 0, apiUrl, FALSE, <<>>)
  /\ UNCHANGED <<tree, text, parser, jsLanguage, tsLanguage, yaml, env, now, poll, budgetConfig>>

InitConfig ==
  /\ tree = <<>>
  /\ text = <<>>
  /\ parser = "null"
  /\ jsLanguage = "null"
  /\ tsLanguage = "null"
  /\ ret = NoReturn
  /\ yaml = NoFile
  /\ disk \in ConfigFiles
  /\ env \in Environments
  /\ now = 0
  /\ poll = NotPolling
  /\ budgetConfig = NoBudget

NextConfig ==
  \/ Load
  \/ \E config \in CLIConfigs : Save(config)
  \/ GetApiKey
  \/ GetApiUrl
  \/ \E apiKey \in {"", "new-key"} : SetApiKey(apiKey)
  \/ \E apiUrl \in {"", "https://new.api.com"} : SetApiUrl(apiUrl)

SpecConfig == InitConfig /\ [][NextConfig]_vars

\* ------------------------------------------------------------------------
\* UploadCommand, in its two versions (budgetAware: the later one). The calls
\* made on the API client are kept in order, each with what it returned.
\* ------------------------------------------------------------------------
ApiCall(name, result) == [name |-> name, result |-> result]

UploadOptions(apiKey, dryRun, checkBudget, run, wait) ==
  [apiKey |-> apiKey, dryRun |-> dryRun, checkBudget |-> checkBudget, run |-> run, wait |-> wait]

\* what the platform answers: to the validation request ("ok", "unauthorized"
\* or "network" for a failed fetch), to the upload or creation of the suite, to
\* the creation of the run and to the polling of the run
Server(validate, upload, run, answer) ==
  [validate |-> validate, upload |-> upload, run |-> run, poll |-> answer]

\* EvalOpsAPIClient.validateApiKey: response.ok, false when fetch throws
validateApiKey(server) == server.validate = "ok"

Finished(threw, message, calls, printed, tests) ==
  [threw |-> threw, message |-> message, calls |-> calls, printed |-> printed, tests |-> tests]

\* the message the steps before the dry-run test throw, or <<>>: the file, the
\* API key, parseFile, resolveFileReferences, stringify and, in the later
\* version, the budget check. dumpThrows: yaml.dump refuses the undefined
\* properties of discovered test cases, as js-yaml before version 4 does
Preconditions(budgetAware, options, file, apiKey, cases, budget, dumpThrows) ==
  IF file.kind = "absent" THEN <<"Configuration file not found">>
  ELSE IF Unset(apiKey) THEN <<"API key is required">>
  ELSE IF parseFile(ConfigPath, file, TRUE).threw
  THEN parseFile(ConfigPath, file, TRUE).message
  ELSE IF file.reference = "broken" THEN <<"Failed to read referenced file: ", "prompt.txt">>
  ELSE IF cases # <<>> /\ dumpThrows THEN <<"Failed to stringify configuration: ", "undefined">>
  ELSE IF budgetAware /\ options.checkBudget /\ budget = "unreadable"
  THEN <<"Failed to load budget configuration">>
  ELSE IF budgetAware /\ options.checkBudget /\ budget = "violated"
  THEN <<"Budget constraints violated - upload aborted">>
  ELSE <<>>

\* the dry-run test never taken
DryRunIgnored(options) == FALSE

\* if (options.dryRun)
DryRun(options) == options.dryRun

\* the validation result never looked at
RejectedNever(isValid) == FALSE

\* if (!isValid)
Rejected(isValid) == ~isValid

\* the later version from the creation of the suite on
CreateAndRun(options, server, budget, calls, tests) ==
  IF server.upload # "ok"
  THEN Finished(TRUE, <<"Failed to create test suite: ", server.upload>>,
                Append(calls, ApiCall("createTestSuite", "rejects")), FALSE, tests)
  ELSE IF ~options.run
  THEN Finished(FALSE, <<>>, Append(calls, ApiCall("createTestSuite", "created")), FALSE, tests)
  ELSE IF server.run # "ok"
  THEN Finished(TRUE, <<"Failed to create test run: ", server.run>>,
                calls \o <<ApiCall("createTestSuite", "created"),
                           ApiCall("createTestRun", "rejects")>>, FALSE, tests)
  ELSE IF ~options.wait
  THEN Finished(FALSE, <<>>,
                calls \o <<ApiCall("createTestSuite", "created"),
                           ApiCall("createTestRun", "pending")>>, FALSE, tests)
  ELSE LET made == calls \o <<ApiCall("createTestSuite", "created"),
                              ApiCall("createTestRun", "pending"),
                              ApiCall("pollTestRun", server.poll)>>
       IN  IF server.poll \in {"timeout", "rejects"}
           THEN Finished(TRUE, <<"Test run ", server.poll>>, made, FALSE, tests)
           ELSE IF /\ server.poll = "completed with metrics"
                   /\ options.checkBudget
                   /\ budget = "exceeded by the run"
           THEN Finished(TRUE, <<"Budget constraints violated">>, made, FALSE, tests)
           ELSE Finished(FALSE, <<>>, made, FALSE, tests)

\* UploadCommand.execute. cases: what discoverAllTests() returned, <<>> when
\* it rejected too
uploadExecute(budgetAware, options, file, storedKey, cases, server, budget, dumpThrows) ==
  LET apiKey == IF Unset(options.apiKey) THEN storedKey ELSE options.apiKey
      failed == Preconditions(budgetAware, options, file, apiKey, cases, budget, dumpThrows)
      tests == IF failed = <<>> THEN Len(file.config.tests.items) + Len(cases) ELSE 0
      isValid == validateApiKey(server)
      validated == <<ApiCall("validateApiKey", IF isValid THEN "true" ELSE "false")>>
  IN  IF failed # <<>> THEN Finished(TRUE, failed, <<>>, FALSE, 0)
      ELSE IF DryRun(options) THEN Finished(FALSE, <<>>, <<>>, TRUE, tests)
      ELSE IF Rejected(isValid)
      THEN Finished(TRUE, <<"Invalid API credentials">>, validated, FALSE, tests)
      ELSE IF budgetAware THEN CreateAndRun(options, server, budget, validated, tests)
      ELSE IF server.upload # "ok"
      THEN Finished(TRUE, <<"Upload failed: ", server.upload>>,
                    Append(validated, ApiCall("uploadTestSuite", "rejects")), FALSE, tests)
      ELSE Finished(FALSE, <<>>, Append(validated, ApiCall("uploadTestSuite", "created")),
                    FALSE, tests)

\* a platform that accepts everything, and the same with one answer changed
GoodServer == Server("ok", "ok", "ok", "completed with metrics")

Servers ==
  {GoodServer}
    \cup {[GoodServer EXCEPT !.validate = v] : v \in {"unauthorized", "network"}}
    \cup {[GoodServer EXCEPT !.upload = "HTTP 400"], [GoodServer EXCEPT !.run = "HTTP 500"]}
    \cup {[GoodServer EXCEPT !.poll = v] : v \in {"failed", "timeout"}}

\* budget.yaml as the pre-upload check and the check of the run find it
Budgets == {"absent", "kept", "violated", "unreadable", "exceeded by the run"}

UploadInputs(budgetAware, options, globFails, server, budget, dumpThrows) ==
  [budgetAware |-> budgetAware, options |-> options, globFails |-> globFails,
   server |-> server, budget |-> budget, dumpThrows |-> dumpThrows]

Upload(budgetAware, options, globFails, server, budget, dumpThrows) ==
  /\ ret' = LET cases == IF globFails THEN <<>>
                         ELSE AllTests(discoverTestFiles(DefaultPatterns, tree), 1)
                finished == uploadExecute(budgetAware, options, yaml, getApiKey(env, disk),
                                          cases, server, budget, dumpThrows)
            IN  Return("upload", 0,
                       UploadInputs(budgetAware, options, globFails, server, budget, dumpThrows),
                       finished.threw, finished)
  /\ UNCHANGED <<tree, text, parser, jsLanguage, tsLanguage, surroundings>>

UploadFiles ==
  {NoFile, [kind |-> "malformed"]}
    \cup {[kind |-> "object", config |-> GoodConfig, reference |-> r] :
            r \in {"none", "resolves", "broken"}}
    \cup {[kind |-> "object", config |-> c, reference |-> "none"] :
            c \in {[GoodConfig EXCEPT !.tests = NoList],
                   [GoodConfig EXCEPT !.providers = List(<<>>)]}}

\* a codebase of one file: empty, with one declaration, or with a malformed one
UploadTrees ==
  {t \in ReadableTrees :
     /\ Len(t) = 1
     /\ Len(t[1].items) <= 1
     /\ \A n \in 1..Len(t[1].items) : t[1].items[n].name \in {"testFive", "testBroken"}}

InitUpload ==
  /\ tree \in UploadTrees
  /\ text = <<>>
  /\ parser = "null"
  /\ jsLanguage = "null"
  /\ tsLanguage = "null"
  /\ ret = NoReturn
  /\ yaml \in UploadFiles
  /\ disk = NoFile
  /\ env \in {NoEnv, [NoEnv EXCEPT !.EVALOPS_API_KEY = "env-key"]}
  /\ now = 0
  /\ poll = NotPolling
  /\ budgetConfig = NoBudget

\* one run of the command: the process ends with it. Inputs that no step
\* reads are left at one value
NextUpload ==
  /\ ret = NoReturn
  /\ \E budgetAware \in BOOLEAN, apiKey \in {Undefined, "option-key"}, dryRun \in BOOLEAN,
        checkBudget \in BOOLEAN, run \in BOOLEAN, wait \in BOOLEAN, globFails \in BOOLEAN,
        server \in Servers, budget \in Budgets, dumpThrows \in BOOLEAN :
       /\ wait => run
       /\ globFails => ~dumpThrows
       /\ ~checkBudget => budget = "absent"
       /\ Upload(budgetAware, UploadOptions(apiKey, dryRun, checkBudget, run, wait), globFails,
                 server, budget, dumpThrows)

SpecUpload == InitUpload /\ [][NextUpload]_vars

\* ------------------------------------------------------------------------
\* EvalOpsAPIClient.pollTestRun, one action per step of the loop between two
\* awaits. The clock only moves while the call awaits: getTestRun takes some
\* time to answer and the timer fires pollInterval or more after it was set.

pollInterval == 2000

Statuses == {"pending", "running", "completed", "failed"}
\* what getTestRun can end with: a run in one of the statuses, a response that
\* is not ok, a fetch that rejects
Responses == Statuses \cup {"not ok", "fetch rejects"}
MaxWaits == {0, 3000, 4000}
Latencies == {0, 1000}
Delays == {pollInterval, pollInterval + 1000}

TestRun(status, message) == [status |-> status, message |-> message]

\* getTestRun: the run, or the error it throws
getTestRun(answer) ==
  CASE answer = "not ok" -> Parsed(TRUE, <<"Failed to fetch test run: HTTP ", "500">>, TestRun(Undefined, <<>>))
    [] answer = "fetch rejects" -> Parsed(TRUE, <<"fetch failed">>, TestRun(Undefined, <<>>))
    [] OTHER -> Parsed(FALSE, <<>>, TestRun(answer, <<>>))

TerminalOrRunning(status) == status \in {"completed", "failed", "running"}
Terminal(status) == status = "completed" \/ status = "failed"

\* const startTime = Date.now()
PollTestRun(maxWaitMs) ==
  /\ poll.pc = "idle"
  /\ poll' = Frame("while", now, maxWaitMs, <<>>)
  /\ UNCHANGED <<tree, text, parser, jsLanguage, tsLanguage, ret, yaml, disk, env, now, budgetConfig>>

\* the test of the while loop, and the throw after it
WhileTest ==
  /\ poll.pc = "while"
  /\ IF now - poll.startTime < poll.maxWaitMs
     THEN /\ poll' = [poll EXCEPT !.pc = "getTestRun"]
          /\ UNCHANGED ret
     ELSE /\ poll' = [poll EXCEPT !.pc = "done"]
          /\ ret' = Return("pollTestRun", 0, <<poll.maxWaitMs>>, TRUE,
                           TestRun(Undefined, <<"Test run timeout after ", ToString(poll.maxWaitMs), "ms">>))
  /\ UNCHANGED <<tree, text, parser, jsLanguage, tsLanguage, yaml, disk, env, now, budgetConfig>>

\* await this.getTestRun(testRunId) and the test of its status
GetTestRun(answer, latency) ==
  /\ poll.pc = "getTestRun"
  /\ now' = now + latency
  /\ LET testRun == getTestRun(answer)
     IN  IF testRun.threw
         THEN /\ poll' = [poll EXCEPT !.pc = "done", !.seen = Append(@, answer)]
              /\ ret' = Return("pollTestRun", 0, <<poll.maxWaitMs>>, TRUE,
                               TestRun(Undefined, testRun.message))
         ELSE IF Terminal(testRun.value.status)
         THEN /\ poll' = [poll EXCEPT !.pc = "done", !.seen = Append(@, answer)]
              /\ ret' = Return("pollTestRun", 0, <<poll.maxWaitMs>>, FALSE, testRun.value)
         ELSE /\ poll' = [poll EXCEPT !.pc = "setTimeout", !.seen = Append(@, answer)]
              /\ UNCHANGED ret
  /\ UNCHANGED <<tree, text, parser, jsLanguage, tsLanguage, yaml, disk, env, budgetConfig>>

\* await new Promise(resolve => setTimeout(resolve, pollInterval))
SetTimeout(delay) ==
  /\ poll.pc = "setTimeout"
  /\ now' = now + delay
  /\ poll' = [poll EXCEPT !.pc = "while"]
  /\ UNCHANGED <<tree, text, parser, jsLanguage, tsLanguage, ret, yaml, disk, env, budgetConfig>>

InitPoll ==
  /\ tree = <<>>
  /\ text = <<>>
  /\ parser = "null"
  /\ jsLanguage = "null"
  /\ tsLanguage = "null"
  /\ ret = NoReturn
  /\ yaml = NoFile
  /\ disk = NoFile
  /\ env = NoEnv
  /\ now \in {0, 7000}
  /\ poll = NotPolling
  /\ budgetConfig = NoBudget

NextPoll ==
  \/ \E maxWaitMs \in MaxWaits : PollTestRun(maxWaitMs)
  \/ WhileTest
  \/ \E answer \in Responses, latency \in Latencies : GetTestRun(answer, latency)
  \/ \E delay \in Delays : SetTimeout(delay)

SpecPoll == InitPoll /\ [][NextPoll]_vars

\* ------------------------------------------------------------------------
\* BudgetValidator.validateMetrics. An optional property is <<>> when it is
\* undefined and <<v>> when it has the value v; numbers are integers.

Has(property) == property # <<>>
\* `x && ...` on an optional number: undefined and 0 are falsy
NonZero(property) == Has(property) /\ property[1] # 0

BudgetThreshold(min, max, warning) == [min |-> min, max |-> max, warning |-> warning]
CostBudget(max_usd, warning_usd, max_tokens) ==
  [max_usd |-> max_usd, warning_usd |-> warning_usd, max_tokens |-> max_tokens]
PerformanceBudget(max_latency_ms, warning_latency_ms, max_execution_time_ms) ==
  [max_latency_ms |-> max_latency_ms, warning_latency_ms |-> warning_latency_ms,
   max_execution_time_ms |-> max_execution_time_ms]
BudgetConfig(quality_score, cost, performance, metrics, actions) ==
  [kind |-> "object", quality_score |-> quality_score, cost |-> cost,
   performance |-> performance, metrics |-> metrics, actions |-> actions]
EvaluationMetrics(quality_score, cost_usd, tokens_used, avg_latency_ms, total_execution_time_ms, custom_metrics) ==
  [quality_score |-> quality_score, cost_usd |-> cost_usd, tokens_used |-> tokens_used,
   avg_latency_ms |-> avg_latency_ms, total_execution_time_ms |-> total_execution_time_ms,
   custom_metrics |-> custom_metrics]

BudgetViolation(type, category, metric, actual, threshold) ==
  [type |-> type, category |-> category, metric |-> metric, actual |-> actual,
   threshold |-> threshold]

\* one `if (...) list.push({...})`
PushIf(condition, violation) == IF condition THEN <<violation>> ELSE <<>>

checkThreshold(metricName, category, actual, threshold) ==
  [violations |->
     PushIf(Has(threshold.min) /\ actual < threshold.min[1],
            BudgetViolation("error", category, metricName, actual, threshold.min[1]))
     \o PushIf(Has(threshold.max) /\ actual > threshold.max[1],
               BudgetViolation("error", category, metricName, actual, threshold.max[1])),
   warnings |->
     PushIf(/\ Has(threshold.warning)
            /\ \/ Has(threshold.min) /\ actual < threshold.warning[1]
               \/ Has(threshold.max) /\ actual > threshold.warning[1],
            BudgetViolation("warning", category, metricName, actual, threshold.warning[1]))]

NoViolations == [violations |-> <<>>, warnings |-> <<>>]

\* the custom metrics: config.metrics is the list of Object.entries, in order
RECURSIVE CustomViolations(_, _)
CustomViolations(entries, custom_metrics) ==
  IF entries = <<>>
  THEN NoViolations
  ELSE LET actualValue == custom_metrics[entries[1].name]
           here == IF Has(actualValue)
                   THEN checkThreshold(entries[1].name, "custom", actualValue[1], entries[1].threshold)
                   ELSE NoViolations
           rest == CustomViolations(Tail(entries), custom_metrics)
       IN  [violations |-> here.violations \o rest.violations,
            warnings |-> here.warnings \o rest.warnings]

Abs(n) == IF n < 0 THEN 0 - n ELSE n
\* [...violations, ...warnings].sort(...)[0]: the first of those farthest from
\* their threshold (the sort is stable), undefined when there is none
worstViolation(all) ==
  IF all = <<>>
  THEN <<>>
  ELSE LET far(i) == Abs(all[i].actual - all[i].threshold)
           worst == CHOOSE i \in 1..Len(all) :
                      /\ \A j \in 1..Len(all) : far(j) <= far(i)
                      /\ \A j \in 1..(i - 1) : far(j) < far(i)
       IN  <<all[worst]>>

FailOnWarning(config) == Has(config.actions) /\ config.actions[1].fail_on_warning = <<TRUE>>

PassedWhateverTheWarnings(config, violations, warnings) == Len(violations) = 0
Passed(config, violations, warnings) ==
  Len(violations) = 0 /\ (~FailOnWarning(config) \/ Len(warnings) = 0)

BudgetResult(passed, violations, warnings) ==
  [passed |-> passed, violations |-> violations, warnings |-> warnings,
   summary |-> [totalViolations |-> Len(violations), totalWarnings |-> Len(warnings),
                worstViolation |-> worstViolation(violations \o warnings)]]

validateMetrics(config, metrics) ==
  LET quality == IF Has(config.quality_score)
                 THEN checkThreshold("quality_score", "quality", metrics.quality_score,
                                     config.quality_score[1])
                 ELSE NoViolations
      cost == IF Has(config.cost)
              THEN LET c == config.cost[1]
                   IN  [violations |->
                          PushIf(NonZero(c.max_usd) /\ metrics.cost_usd > c.max_usd[1],
                                 BudgetViolation("error", "cost", "cost_usd", metrics.cost_usd, c.max_usd[1]))
                          \o PushIf(NonZero(c.max_tokens) /\ metrics.tokens_used > c.max_tokens[1],
                                    BudgetViolation("error", "cost", "tokens_used", metrics.tokens_used, c.max_tokens[1])),
                        warnings |->
                          PushIf(NonZero(c.warning_usd) /\ metrics.cost_usd > c.warning_usd[1],
                                 BudgetViolation("warning", "cost", "cost_usd", metrics.cost_usd, c.warning_usd[1]))]
              ELSE NoViolations
      performance ==
        IF Has(config.performance)
        THEN LET p == config.performance[1]
             IN  [violations |->
                    PushIf(NonZero(p.max_latency_ms) /\ metrics.avg_latency_ms > p.max_latency_ms[1],
                           BudgetViolation("error", "performance", "avg_latency_ms", metrics.avg_latency_ms, p.max_latency_ms[1]))
                    \o PushIf(NonZero(p.max_execution_time_ms) /\ metrics.total_execution_time_ms > p.max_execution_time_ms[1],
                              BudgetViolation("error", "performance", "total_execution_time_ms", metrics.total_execution_time_ms, p.max_execution_time_ms[1])),
                  warnings |->
                    PushIf(NonZero(p.warning_latency_ms) /\ metrics.avg_latency_ms > p.warning_latency_ms[1],
                           BudgetViolation("warning", "performance", "avg_latency_ms", metrics.avg_latency_ms, p.warning_latency_ms[1]))]
        ELSE NoViolations
      custom == IF Has(config.metrics) /\ Has(metrics.custom_metrics)
                THEN CustomViolations(config.metrics[1], metrics.custom_metrics[1])
                ELSE NoViolations
      violations == quality.violations \o cost.violations \o performance.violations \o custom.violations
      warnings == quality.warnings \o cost.warnings \o performance.warnings \o custom.warnings
  IN  BudgetResult(Passed(config, violations, warnings), violations, warnings)

\* validateMetrics on the validator's config; reading a property of an
\* undefined config throws a TypeError
ValidateMetrics(metrics) ==
  /\ ret = NoReturn
  /\ ret' = IF budgetConfig.kind = "undefined"
            THEN Return("validateMetrics", 0, metrics, TRUE, <<"TypeError">>)
            ELSE Return("validateMetrics", 0, metrics, FALSE, validateMetrics(budgetConfig, metrics))
  /\ UNCHANGED <<tree, text, parser, jsLanguage, tsLanguage, surroundings>>

Low == 1
High == 3
Optional(values) == {<<>>} \cup {<<v>> : v \in values}
MetricNames == {"accuracy"}
QualityThresholds ==
  {BudgetThreshold(min, max, warning) :
     min \in Optional({Low}), max \in Optional({High}), warning \in Optional({Low + 1})}
CostBudgets ==
  {CostBudget(max_usd, warning_usd, <<High>>) :
     max_usd \in Optional({0, High}), warning_usd \in Optional({Low})}
PerformanceBudgets ==
  {PerformanceBudget(max_latency_ms, warning_latency_ms, <<High>>) :
     max_latency_ms \in Optional({High}), warning_latency_ms \in Optional({Low})}
CustomBudgets ==
  {<<>>, <<[name |-> "accuracy", threshold |-> BudgetThreshold(<<Low + 1>>, <<>>, <<High>>)]>>}
ActionsConfigs == {[fail_on_warning |-> f] : f \in Optional(BOOLEAN)}
BudgetConfigs ==
  {BudgetConfig(quality_score, cost, performance, metrics, actions) :
     quality_score \in Optional(QualityThresholds), cost \in Optional(CostBudgets),
     performance \in Optional(PerformanceBudgets), metrics \in Optional(CustomBudgets),
     actions \in Optional(ActionsConfigs)}
Measured == {0, Low + 1, High + 1}
MetricsInputs ==
  {EvaluationMetrics(quality_score, cost_usd, tokens_used, avg_latency_ms, avg_latency_ms, custom_metrics) :
     quality_score \in Measured, cost_usd \in {0, High + 1}, tokens_used \in {0, High + 1},
     avg_latency_ms \in {Low + 1, High + 1},
     custom_metrics \in Optional({[accuracy |-> a] : a \in Optional({Low, High})})}

InitBudget ==
  /\ tree = <<>>
  /\ text = <<>>
  /\ parser = "null"
  /\ jsLanguage = "null"
  /\ tsLanguage = "null"
  /\ ret = NoReturn
  /\ yaml = NoFile
  /\ disk = NoFile
  /\ env = NoEnv
  /\ now = 0
  /\ poll = NotPolling
  /\ budgetConfig \in BudgetConfigs \cup {NoBudget}

NextBudget == \E metrics \in MetricsInputs : ValidateMetrics(metrics)

SpecBudget == InitBudget /\ [][NextBudget]_vars

\* ------------------------------------------------------------------------
\* What a file declares
\* ------------------------------------------------------------------------
IsDeclaration(item) == item.form \in {"annotated", "call"}
WellFormed(item) == IsDeclaration(item) /\ EvalLiteral(item.config).ok
Malformed(item) == IsDeclaration(item) /\ ~EvalLiteral(item.config).ok
DeclaresCode(item) ==
  /\ EvalLiteral(item.config).ok
  /\ "code" \in VarNames(Get(EvalLiteral(item.config).val, "vars"))

\* 1-based line on which the n-th item of a file starts
SiteLine(items, n) == LineNumberAt(FileText(items), ItemOffset(items, n))

\* offset of the first lexeme of a line
LineStart(content, line) ==
  CHOOSE o \in 0..Len(content) :
    /\ LineNumberAt(content, o) = line
    /\ \A q \in 0..Len(content) : LineNumberAt(content, q) = line => o <= q

ParsedItems == tree[ret.at].items
ParsedText == FileText(ParsedItems)
Inline(r) == r.metadata.functionName = <<"inline_test">>

\* the record was made at the site of the n-th item by the heuristic strategy
AtSite(r, items, n) == r.metadata.lineNumber = SiteLine(items, n)

\* C1: parseTestFile drops a declaration whose configuration literal cannot be
\* evaluated and still returns every well-formed declaration of the same file,
\* whichever form it has and wherever it stands.
C1_MalformedDoesNotAffectOthers ==
  (ret.op = "parseTestFile" /\ ~ret.threw
     /\ \E n \in 1..Len(ParsedItems) : Malformed(ParsedItems[n]))
  => \A n \in 1..Len(ParsedItems) :
       /\ Malformed(ParsedItems[n])
            => ~\E i \in 1..Len(ret.val) : AtSite(ret.val[i], ParsedItems, n)
       /\ WellFormed(ParsedItems[n])
            => \E i \in 1..Len(ret.val) :
                 /\ AtSite(ret.val[i], ParsedItems, n)
                 /\ Inline(ret.val[i]) <=> ParsedItems[n].form = "call"

\* the record the structural strategy makes for the n-th item
StructuralRecordOf(r, items, n) ==
  IF items[n].form = "call"
  THEN Inline(r) /\ r.metadata.lineNumber = SiteLine(items, n)
  ELSE /\ r.metadata.functionName = <<items[n].name>>
       /\ r.metadata.lineNumber = SiteLine(items, n) + 1

\* C2: in both strategies a declaration whose configuration literal fails
\* evaluation produces no record at all.
C2_NoRecordForMalformed ==
  /\ (ret.op = "parseTestFile" /\ ~ret.threw)
       => \A n \in 1..Len(ParsedItems) :
            Malformed(ParsedItems[n])
              => ~\E i \in 1..Len(ret.val) : AtSite(ret.val[i], ParsedItems, n)
  /\ (ret.op = "structuralParseTestFile" /\ ~ret.threw)
       => \A n \in 1..Len(ParsedItems) :
            Malformed(ParsedItems[n])
              => ~\E i \in 1..Len(ret.val) : StructuralRecordOf(ret.val[i], ParsedItems, n)

\* the file's only declaration is its n-th item, a well-formed annotated function
OnlyAnnotatedDeclaration(items, n) ==
  /\ items[n].form = "annotated"
  /\ WellFormed(items[n])
  /\ ~DeclaresCode(items[n])
  /\ \A m \in 1..Len(items) : m # n => items[m].form = "function"

\* C3: for a file with exactly one well-formed annotated declaration,
\* parseTestFile returns exactly one record, named after the annotated function
\* and carrying exactly its body, braces included, as vars.code.
C3_OneAnnotatedDeclaration ==
  (ret.op = "parseTestFile" /\ ~ret.threw)
  => \A n \in 1..Len(ParsedItems) :
       OnlyAnnotatedDeclaration(ParsedItems, n)
         => /\ Len(ret.val) = 1
            /\ ret.val[1].metadata.functionName = <<ParsedItems[n].name>>
            /\ ret.val[1].vars["code"] = StrVal(ParsedItems[n].body)

\* the pairs <<function name, line>> the pairing rule of the claim yields: each
\* evaluated annotation with the first function starting after its last lexeme
RECURSIVE PairsAfterEnd(_, _, _)
PairsAfterEnd(content, ms, n) ==
  IF n > Len(ms) THEN <<>>
  ELSE LET fns == Functions(content)
           hits == {k \in 1..Len(fns) : fns[k].index > ms[n].lastIndex - 1}
           first == CHOOSE k \in hits : \A m \in hits : k <= m
       IN  (IF EvalLiteral(Substring(content, ms[n].from, ms[n].to)).ok /\ hits # {}
            THEN <<<<fns[first].name, LineNumberAt(content, ms[n].index)>>>>
            ELSE <<>>)
           \o PairsAfterEnd(content, ms, n + 1)

RECURSIVE AnnotationPairs(_)
AnnotationPairs(cases) ==
  IF cases = <<>> THEN <<>>
  ELSE (IF Inline(Head(cases)) THEN <<>>
        ELSE <<<<Head(cases).metadata.functionName, Head(cases).metadata.lineNumber>>>>)
       \o AnnotationPairs(Tail(cases))

\* C4: every evaluated annotation is paired with the first function definition
\* that starts after the annotation's end, never with one inside the annotation's
\* own text; without such a function it yields no record.
C4_PairedAfterAnnotationEnd ==
  (ret.op = "parseTestFile" /\ ~ret.threw)
  => AnnotationPairs(ret.val)
       = PairsAfterEnd(ParsedText, AllMatches("decorator", ParsedText, 0), 1)

\* position of a path in a list of paths
PositionIn(paths, path) == CHOOSE n \in 1..Len(paths) : paths[n] = path

\* C5: discoverAllTests returns the records file by file in the order
\* discoverTestFiles returned the files, and within a file in source order of the
\* declaration sites, annotation or call alike.
C5_FileOrderThenSourceOrder ==
  ret.op = "discoverAllTests"
  => LET files == discoverTestFiles(ret.arg, tree)
     IN  \A i, j \in 1..Len(ret.val) :
           i < j =>
             LET a == ret.val[i].metadata
                 b == ret.val[j].metadata
             IN  /\ PositionIn(files, a.filePath) <= PositionIn(files, b.filePath)
                 /\ a.filePath = b.filePath => a.lineNumber <= b.lineNumber

ExcludedDirectories == {Dir("node_modules"), Dir("dist"), Dir("build")}

\* C6: discoverTestFiles never returns a path with a node_modules, dist or build
\* segment at any depth.
C6_NoExcludedSegment ==
  ret.op = "discoverTestFiles"
  => \A i \in 1..Len(ret.val) :
       \A k \in 1..Len(ret.val[i]) : ret.val[i][k] \notin ExcludedDirectories

\* number of lexemes ch at offsets a..b
Count(content, ch, a, b) == Cardinality({k \in a..b : Ch(content, k) = ch})

\* the block from the first '{' at or after start to the '}' that closes it,
\* or the empty text
BalancedBlock(content, start) ==
  LET open == IndexOf(content, "{", start)
      closes == {j \in open..(Len(content) - 1) :
                   Count(content, "{", open, j) = Count(content, "}", open, j)}
  IN  IF open = -1 \/ closes = {} THEN <<>>
      ELSE Substring(content, open,
                     (CHOOSE j \in closes : \A m \in closes : j <= m) + 1)

\* C7: extractFunctionBody returns the block from the first '{' at or after the
\* start index to its matching '}', or the empty string when there is none.
C7_BodyIsBalancedBlock ==
  ret.op = "extractFunctionBody" => ret.val = BalancedBlock(text, ret.at)

WellFormedCalls == {item \in Items : item.form = "call" /\ WellFormed(item)}

\* C8: for a call evalops_test(<config object>, <function value>),
\* extractFunctionFromCall returns exactly the text of the second argument; a
\* comma inside the configuration object is not the separator.
C8_SecondArgumentOfCall ==
  (ret.op = "extractFunctionFromCall" /\ ret.at = 0)
  => \A item \in WellFormedCalls :
       text = CallText(item) => ret.val = FunctionValueText(item)

\* C9: parseTestFile returns exactly one inline_test record for every well-formed
\* call declaration, whatever annotation sites precede it in the file.
C9_CallScanIndependent ==
  (ret.op = "parseTestFile" /\ ~ret.threw)
  => \A n \in 1..Len(ParsedItems) :
       (ParsedItems[n].form = "call" /\ WellFormed(ParsedItems[n]))
         => Cardinality({i \in 1..Len(ret.val) :
                           Inline(ret.val[i]) /\ AtSite(ret.val[i], ParsedItems, n)}) = 1

\* the item that starts on that line
ItemsAtLine(items, line) == {n \in 1..Len(items) : SiteLine(items, n) = line}

\* the text occurs in content at an offset >= from
SliceFrom(content, slice, from) ==
  \E a \in from..Len(content) : Substring(content, a, a + Len(slice)) = slice

\* C10: vars.code of every record is a contiguous slice of the file that begins
\* at or after the start of line metadata.lineNumber, unless the configuration
\* declares a variable named code.
C10_CodeIsSliceFromSiteLine ==
  (ret.op = "parseTestFile" /\ ~ret.threw)
  => \A i \in 1..Len(ret.val) :
       \/ \E n \in ItemsAtLine(ParsedItems, ret.val[i].metadata.lineNumber) :
            DeclaresCode(ParsedItems[n])
       \/ /\ ret.val[i].vars["code"].t = "string"
          /\ SliceFrom(ParsedText, ret.val[i].vars["code"].s,
                       LineStart(ParsedText, ret.val[i].metadata.lineNumber))

\* the variables the configuration of an item declares
DeclaredVars(item) ==
  IF EvalLiteral(item.config).ok THEN Get(EvalLiteral(item.config).val, "vars") ELSE UndefVal

\* the map holds code, holds every declared variable with its declared value,
\* and its code is one of the extracted texts unless code is declared
VarsAsDeclared(map, declared, codes) ==
  /\ "code" \in DOMAIN map
  /\ \A k \in VarNames(declared) : k \in DOMAIN map /\ map[k] = Get(declared, k)
  /\ "code" \notin VarNames(declared) => \E c \in codes : map["code"] = StrVal(c)

\* the texts the heuristic strategy extracts for a record made at item n
HeuristicCodes(r, items, n) ==
  IF Inline(r)
  THEN {extractFunctionFromCall(FileText(items), ItemOffset(items, n))}
  ELSE LET fns == Functions(FileText(items))
       IN  {extractFunctionBody(FileText(items), fns[k].index) :
              k \in {j \in 1..Len(fns) : fns[j].name = r.metadata.functionName}}

\* the items whose decorator the structural strategy finds for the function of
\* line `line`: the nearest annotation at or before the function
NearestAnnotation(items, line) ==
  {m \in 1..Len(items) :
     /\ items[m].form \in {"annotated", "annotation"}
     /\ \E n \in m..Len(items) :
          /\ items[n].form \in {"annotated", "function"}
          /\ line = SiteLine(items, n) + (IF items[n].form = "annotated" THEN 1 ELSE 0)
          /\ \A q \in (m + 1)..n :
               items[q].form \notin {"annotated", "annotation"}}

\* the body of the function declared on line `line`
BodiesAtLine(items, line) ==
  {items[n].body : n \in {q \in 1..Len(items) :
     /\ items[q].form \in {"annotated", "function"}
     /\ line = SiteLine(items, q) + (IF items[q].form = "annotated" THEN 1 ELSE 0)}}

\* C11: every record's variable map contains a code entry and every variable the
\* configuration declares, with its declared value; the code entry is the
\* extracted source text unless the configuration declares a variable named code.
C11_VarsHoldCodeAndDeclared ==
  /\ (ret.op = "parseTestFile" /\ ~ret.threw)
       => \A i \in 1..Len(ret.val) :
            \E n \in 1..Len(ParsedItems) :
              /\ EvalLiteral(ParsedItems[n].config).ok
              /\ AtSite(ret.val[i], ParsedItems, n)
              /\ VarsAsDeclared(ret.val[i].vars, DeclaredVars(ParsedItems[n]),
                                HeuristicCodes(ret.val[i], ParsedItems, n))
  /\ (ret.op = "structuralParseTestFile" /\ ~ret.threw)
       => \A i \in 1..Len(ret.val) :
            \E m \in NearestAnnotation(ParsedItems, ret.val[i].metadata.lineNumber) :
              VarsAsDeclared(ret.val[i].vars, DeclaredVars(ParsedItems[m]),
                             BodiesAtLine(ParsedItems, ret.val[i].metadata.lineNumber))

\* a record whose configuration declares lang and not code: it holds both
C11_Witness ==
  /\ ret.op = "parseTestFile"
  /\ \E i \in 1..Len(ret.val) :
       /\ DOMAIN ret.val[i].vars = {"code", "lang"}
       /\ ret.val[i].vars["lang"] = StrVal(<<"ts">>)
       /\ ret.val[i].vars["code"] = StrVal(BodySimple)

\* the records of a result that come from one file, in order
RecordsOf(val, path) == SelectSeq(val, LAMBDA r : r.metadata.filePath = path)

\* C12: SimpleTestDiscovery.discoverAllTests never rejects because a selected
\* file cannot be read or parsed: that file contributes no records and every
\* other selected file contributes the records its own parse returns.
C12_FailingFileIsSkipped ==
  ret.op = "discoverAllTests"
  => /\ ~ret.threw
     /\ \A n \in 1..Len(tree) :
          RecordsOf(ret.val, tree[n].path) =
            IF /\ tree[n].readable
               /\ \E k \in 1..Len(discoverTestFiles(ret.arg, tree)) :
                    discoverTestFiles(ret.arg, tree)[k] = tree[n].path
            THEN parseTestFile(FileText(tree[n].items), tree[n].path)
            ELSE <<>>

\* a selected file could not be read and another file's records were returned
C12_Witness ==
  /\ ret.op = "discoverAllTests"
  /\ \E k \in 1..Len(discoverTestFiles(ret.arg, tree)) :
       ~tree[EntryOf(discoverTestFiles(ret.arg, tree)[k])].readable
  /\ Len(ret.val) > 0

\* C13: a grammar-load failure is fatal for the structural strategy: while the
\* parser or a grammar is unset, also after a partially completed initialize(),
\* discoverAllTests has rejected without records and parseTestFile has thrown.
C13_LoadFailureIsFatal ==
  (parser = "null" \/ jsLanguage = "null" \/ tsLanguage = "null")
  => /\ ret.op = "structuralDiscoverAllTests" => (ret.threw /\ ret.val = <<>>)
     /\ ret.op = "structuralParseTestFile" => (ret.threw /\ ret.val = <<>>)
     /\ ret.op = "initialize" => ret.threw

\* parseTestFile threw after an initialize() that set the parser and one grammar
C13_Witness ==
  /\ ret.op = "structuralParseTestFile"
  /\ ret.threw
  /\ parser = "set"
  /\ jsLanguage = "set"
  /\ tsLanguage = "null"

\* C14: discovery is idempotent: a discoverAllTests run that directly follows a
\* run with the same patterns over the unmodified tree returns the same records
\* in the same order; nothing is carried from one run to the next.
C14_ConsecutiveRunsAgree ==
  [][(ret.op = "discoverAllTests" /\ ret'.op = "discoverAllTests" /\ ret'.arg = ret.arg)
       => (ret'.val = ret.val /\ ret'.threw = ret.threw)]_vars

\* a run over two files returned records of both
C14_Witness ==
  /\ ret.op = "discoverAllTests"
  /\ \E i, j \in 1..Len(ret.val) : ret.val[i].metadata.filePath # ret.val[j].metadata.filePath

\* C15: discoverTestFiles returns each matching path at most once, also when the
\* file matches several of the patterns; so discoverAllTests reports for no
\* file more records than one parse of that file returns.
C15_EachPathOnce ==
  /\ ret.op = "discoverTestFiles"
       => \A i, j \in 1..Len(ret.val) : i # j => ret.val[i] # ret.val[j]
  /\ ret.op = "discoverAllTests"
       => \A n \in 1..Len(tree) :
            Len(RecordsOf(ret.val, tree[n].path))
              <= Len(parseTestFile(FileText(tree[n].items), tree[n].path))

\* a returned file matches two of the patterns given
C15_Witness ==
  /\ ret.op = "discoverTestFiles"
  /\ \E k \in 1..Len(ret.val) :
       \E i, j \in 1..Len(ret.arg) :
         /\ i # j
         /\ GlobMatches(ret.arg[i], ret.val[k])
         /\ GlobMatches(ret.arg[j], ret.val[k])

\* C16: every record has a non-empty description: the configuration's when it
\* declares a non-empty one, otherwise 'Test case for <functionName>' for an
\* annotated function and 'Inline test case' for a call declaration.
C16_DescriptionNeverEmpty ==
  (ret.op = "parseTestFile" /\ ~ret.threw)
  => \A i \in 1..Len(ret.val) :
       /\ ret.val[i].description.t = "string"
       /\ ret.val[i].description.s # <<>>
       /\ \E n \in 1..Len(ParsedItems) :
            /\ EvalLiteral(ParsedItems[n].config).ok
            /\ AtSite(ret.val[i], ParsedItems, n)
            /\ LET declared == Get(EvalLiteral(ParsedItems[n].config).val, "description")
               IN  ret.val[i].description =
                     IF declared.t = "string" /\ declared.s # <<>> THEN declared
                     ELSE IF Inline(ret.val[i]) THEN StrVal(<<"Inline test case">>)
                     ELSE StrVal(<<"Test case for ">> \o ret.val[i].metadata.functionName)

\* a record whose configuration declares the empty description
C16_Witness ==
  /\ ret.op = "parseTestFile"
  /\ \E i \in 1..Len(ret.val) :
       /\ ret.val[i].metadata.description = StrVal(<<>>)
       /\ ret.val[i].description = StrVal(<<"Test case for ", "testFive">>)

\* the assertion list the configuration of an item declares
DeclaredAsserts(item) ==
  IF EvalLiteral(item.config).ok
  THEN Get(EvalLiteral(item.config).val, "asserts") ELSE UndefVal

\* the declared list, or the empty array
AssertsAsDeclared(assert, declared) ==
  /\ assert.t = "array"
  /\ assert = IF declared.t = "array" THEN declared ELSE ArrVal(<<>>)

\* C17: every record's assert field is an array: the declared assertion list
\* when the configuration declares one, the empty array otherwise.
C17_AssertIsArray ==
  /\ (ret.op = "parseTestFile" /\ ~ret.threw)
       => \A i \in 1..Len(ret.val) :
            \E n \in 1..Len(ParsedItems) :
              /\ EvalLiteral(ParsedItems[n].config).ok
              /\ AtSite(ret.val[i], ParsedItems, n)
              /\ AssertsAsDeclared(ret.val[i].assert, DeclaredAsserts(ParsedItems[n]))
  /\ (ret.op = "structuralParseTestFile" /\ ~ret.threw)
       => \A i \in 1..Len(ret.val) :
            \E m \in NearestAnnotation(ParsedItems, ret.val[i].metadata.lineNumber) :
              AssertsAsDeclared(ret.val[i].assert, DeclaredAsserts(ParsedItems[m]))

\* one record with the declared list beside one with the empty array
C17_Witness ==
  /\ ret.op = "parseTestFile"
  /\ \E i, j \in 1..Len(ret.val) :
       /\ Len(ret.val[i].assert.props) = 1
       /\ ret.val[j].assert = ArrVal(<<>>)

\* the configurations that pass every check of validation without an error
ValidFiles ==
  {[kind |-> "object", config |-> c, reference |-> r] :
     c \in {GoodConfig,
            [GoodConfig EXCEPT !.version = Str("3.0")],
            [GoodConfig EXCEPT !.prompts = PromptsText("Analyze")],
            [GoodConfig EXCEPT !.providers = List(<<ProviderText("openai")>>)],
            [GoodConfig EXCEPT !.tests = NoList],
            [GoodConfig EXCEPT !.outputFormat = Str("json")]},
     r \in {"none", "resolves"}}

\* C18: ValidateCommand.execute treats zero discovered test cases as a warning:
\* for a valid configuration it resolves when discovery finds no declaration
\* and when discovery itself fails.
C18_ZeroCasesIsAWarning ==
  (ret.op = "validate" /\ yaml \in ValidFiles /\ ret.val.found = 0)
  => /\ ~ret.threw
     /\ ret.val.errors = <<>>
     /\ \E k \in 1..Len(ret.val.warnings) :
          ret.val.warnings[k] \in {"No test cases found in codebase", "Test discovery error"}

\* the good configuration validated over a tree without declarations
C18_Witness ==
  /\ ret.op = "validate"
  /\ yaml = [kind |-> "object", config |-> GoodConfig, reference |-> "none"]
  /\ ret.arg[2] = FALSE
  /\ ret.val.found = 0
  /\ ~ret.threw
  /\ ret.val.warnings = <<"No test cases found in codebase">>

\* the properties config.json holds, read off the file itself
Stored(name) ==
  IF disk.kind = "object" /\ name \in DOMAIN disk.fields THEN disk.fields[name]
  ELSE Undefined

\* C19: getApiKey and getApiUrl resolve by strict priority: a set, non-empty
\* environment variable; otherwise the value of the config file; otherwise the
\* default, undefined for the key and https://api.evalops.dev for the URL.
C19_EnvThenFileThenDefault ==
  /\ ret.op = "getApiKey"
       => ret.val = IF env.EVALOPS_API_KEY \notin {Undefined, ""} THEN env.EVALOPS_API_KEY
                    ELSE Stored("apiKey")
  /\ ret.op = "getApiUrl"
       => ret.val = IF env.EVALOPS_API_URL \notin {Undefined, ""} THEN env.EVALOPS_API_URL
                    ELSE IF Stored("apiUrl") \notin {Undefined, ""} THEN Stored("apiUrl")
                    ELSE "https://api.evalops.dev"

\* the environment holds a key, the file another: the environment's is returned
C19_Witness ==
  /\ ret.op = "getApiKey"
  /\ env.EVALOPS_API_KEY = "env-key"
  /\ Stored("apiKey") = "file-key"
  /\ ret.val = "env-key"

\* C20: setApiKey and setApiUrl change only their own field of the persisted
\* configuration: after each save, setApiKey or setApiUrl, load() returns the
\* value just written for the fields written and the previous value for the rest.
C20_SetChangesOneField ==
  [][/\ ret'.op = "setApiKey"
          => \A name \in {"apiKey", "apiUrl", "debug"} :
               Field(load(disk'), name) =
                 IF name = "apiKey" THEN ret'.arg ELSE Field(load(disk), name)
     /\ ret'.op = "setApiUrl"
          => \A name \in {"apiKey", "apiUrl", "debug"} :
               Field(load(disk'), name) =
                 IF name = "apiUrl" THEN ret'.arg ELSE Field(load(disk), name)
     /\ ret'.op = "save"
          => \A name \in {"apiKey", "apiUrl", "debug"} :
               Field(load(disk'), name) = ret'.arg[name]]_vars

\* a key was set in a file that held a URL and the debug flag, and all three load
C20_Witness ==
  /\ ret.op = "setApiKey"
  /\ Field(load(disk), "apiKey") = "new-key"
  /\ Field(load(disk), "apiUrl") = "https://file.api.com"
  /\ Field(load(disk), "debug") = "true"

\* C21: parseFile on a path where no file is throws an error whose message
\* begins with 'Failed to read configuration file'. The code reports ENOENT
\* as 'Configuration file not found: <path>', so this is violated.
C21_MissingFileIsAReadFailure ==
  (ret.op = "parseFile" /\ yaml.kind = "absent")
    => (ret.threw /\ ret.val.message[1] = "Failed to read configuration file: ")

\* C22: parseString returns the configuration exactly when the document is
\* a mapping with the four required fields, a string description and version,
\* truthy prompts, a non-empty providers array and tests absent or an array;
\* otherwise it throws a message that begins with 'Failed to parse YAML' and
\* names the first missing field when one of the four is absent.
RequiredFields == <<"description", "version", "prompts", "providers">>

MissingFields(config) ==
  SelectSeq(RequiredFields, LAMBDA field : config[field].t = "missing")

Acceptable(document) ==
  /\ document.kind = "object"
  /\ MissingFields(document.config) = <<>>
  /\ document.config.description.t = "string"
  /\ document.config.version.t = "string"
  /\ document.config.prompts.t # "null"
  /\ ~(document.config.prompts.t = "string" /\ document.config.prompts.s = "")
  /\ document.config.providers.t = "array"
  /\ document.config.providers.items # <<>>
  /\ document.config.tests.t \in {"missing", "array"}

FieldNamed(message) ==
  CHOOSE field \in {"description", "version", "prompts", "providers", "none"} :
    IF \E f \in {"description", "version", "prompts", "providers"} :
         message = "Missing required field: " \o f
    THEN message = "Missing required field: " \o field
    ELSE field = "none"

C22_ParseStringAcceptsOnlyValid ==
  ret.op = "parseString"
    => /\ ~ret.threw <=> Acceptable(ret.arg)
       /\ ~ret.threw => ret.val.value = ret.arg.config
       /\ ret.threw => ret.val.message[1] = "Failed to parse YAML: "
       /\ (ret.threw /\ ret.arg.kind = "object" /\ MissingFields(ret.arg.config) # <<>>)
            => FieldNamed(ret.val.message[2]) = MissingFields(ret.arg.config)[1]

C22_Witness ==
  /\ ret.op = "parseString"
  /\ ret.threw
  /\ ret.arg.kind = "object"
  /\ MissingFields(ret.arg.config) = <<"prompts">>

\* C23: resolveFileReferences puts, at every place of the configuration where
\* a string starting with '@' stands, at any depth of objects and arrays, the
\* trimmed content of the file the reference resolves to from basePath; every
\* other place reads as it did; the object passed in is as it was; and when
\* some referenced file cannot be read it throws 'Failed to read referenced
\* file' and returns nothing.
Step(key, index) == [key |-> key, index |-> index]

\* the places of a value: the ways down from it, by key or by index
RECURSIVE Places(_)
Places(value) ==
  {<<>>} \cup
    (IF value.t \in {"object", "array"}
     THEN UNION {{<<Step(value.props[n].key, IF value.t = "array" THEN n ELSE 0)>> \o rest :
                    rest \in Places(value.props[n].val)} : n \in 1..Len(value.props)}
     ELSE {})

\* value[key] or value[index - 1]
Child(value, step) ==
  IF value.t = "array"
  THEN (IF step.index \in 1..Len(value.props) THEN value.props[step.index].val ELSE UndefVal)
  ELSE Get(value, step.key)

RECURSIVE ReadAt(_, _)
ReadAt(value, place) ==
  IF place = <<>> THEN value ELSE ReadAt(Child(value, Head(place)), Tail(place))

IsReference(value) == value.t = "string" /\ value.s # <<>> /\ Head(value.s) = "@"

Referenced(value, basePath) == PathResolve(basePath, Tail(value.s))

References(config) == {place \in Places(config) : IsReference(ReadAt(config, place))}

C23_ReferencesResolvedEverywhere ==
  ret.op = "resolveFileReferences"
    => LET config == ret.arg.config
           basePath == ret.arg.basePath
           broken == {place \in References(config) :
                        ~CanRead(disk, Referenced(ReadAt(config, place), basePath))}
       IN  /\ yaml.value = config
           /\ ret.threw <=> broken # {}
           /\ ret.threw => /\ ret.val.value = <<>>
                           /\ ret.val.message[1] = "Failed to read referenced file: "
           /\ ~ret.threw =>
                /\ Places(ret.val.value) \subseteq Places(config)
                /\ \A place \in Places(config) :
                     LET before == ReadAt(config, place)
                         after == ReadAt(ret.val.value, place)
                     IN  IF IsReference(before)
                         THEN after = StrVal(TrimText(disk[Referenced(before, basePath)]))
                         ELSE IF before.t \in {"object", "array"}
                         THEN after.t = before.t
                         ELSE after = before

\* a reference two levels down, in an array of messages, was resolved to
\* content that had blanks around it
C23_Witness ==
  /\ ret.op = "resolveFileReferences"
  /\ ~ret.threw
  /\ \E place \in References(ret.arg.config) :
       /\ Len(place) = 3
       /\ disk[Referenced(ReadAt(ret.arg.config, place), ret.arg.basePath)]
            # ReadAt(ret.val.value, place).s

\* C24: a run of init without force, when something is at ./evalops.yaml,
\* leaves it as it was and returns without throwing; a run that changes what
\* is there had force.
C24_ExistingFileKeptWithoutForce ==
  [][(ret'.op = "init" /\ yaml.kind # "absent")
       => /\ ~ret'.arg.force => (yaml' = yaml /\ ~ret'.threw)
          /\ yaml' # yaml => ret'.arg.force]_vars

\* a run without force returned over an existing file written by a forced run
C24_Witness ==
  /\ ret.op = "init"
  /\ ~ret.arg.force
  /\ ret.val = "exists"
  /\ yaml = WrittenFile(getTemplate("advanced"))

\* C25 as it is worded: every run with dryRun makes none of the three calls
\* and resolves after printing the configuration. Violated: a dry run still
\* rejects when a step before the dry-run test fails.
C25_DryRunAlwaysResolves ==
  (ret.op = "upload" /\ ret.arg.options.dryRun)
    => /\ \A i \in 1..Len(ret.val.calls) :
            ret.val.calls[i].name \notin {"uploadTestSuite", "createTestSuite", "createTestRun"}
       /\ ~ret.threw
       /\ ret.val.printed

\* C25, amended: a run with dryRun makes no call on the API client at all; it
\* resolves, having printed the configuration, exactly when the file is there,
\* an API key is given or stored, the file parses, its references resolve,
\* the configuration can be dumped and the budget check (later version, when
\* asked for) passes; otherwise it rejects.
DryRunCanPrint(inputs, file, storedKey, cases) ==
  /\ file.kind = "object"
  /\ ~(Unset(inputs.options.apiKey) /\ Unset(storedKey))
  /\ Acceptable(file)
  /\ file.reference # "broken"
  /\ ~(cases # <<>> /\ inputs.dumpThrows)
  /\ ~(inputs.budgetAware /\ inputs.options.checkBudget
         /\ inputs.budget \in {"violated", "unreadable"})

Discovered(inputs) ==
  IF inputs.globFails THEN <<>> ELSE AllTests(discoverTestFiles(DefaultPatterns, tree), 1)

C25_DryRunNeverUploads ==
  (ret.op = "upload" /\ ret.arg.options.dryRun)
    => /\ ret.val.calls = <<>>
       /\ ~ret.threw <=> DryRunCanPrint(ret.arg, yaml, getApiKey(env, disk), Discovered(ret.arg))
       /\ ~ret.threw <=> ret.val.printed

\* a dry run printed a configuration that holds a discovered test case, with
\* a platform that would have accepted the upload
C25_Witness ==
  /\ ret.op = "upload"
  /\ ret.arg.options.dryRun
  /\ ret.val.printed
  /\ ret.val.tests > 0
  /\ ret.arg.server.validate = "ok"
  /\ ret.arg.server.upload = "ok"

\* C28: a call of uploadTestSuite or createTestSuite comes only after a call
\* of validateApiKey that returned true in the same run; a run without an
\* API key, without the configuration file, with an invalid one, or whose
\* validateApiKey returned false (also when its request failed) rejects with
\* no upload call; and a run whose discovery failed, with all else in order,
\* still makes the upload call.
IsUpload(call) == call.name \in {"uploadTestSuite", "createTestSuite"}

UploadCalls(calls) == {i \in 1..Len(calls) : IsUpload(calls[i])}

NoApiKey == Unset(ret.arg.options.apiKey) /\ Unset(getApiKey(env, disk))

C28_UploadOnlyAfterValidation ==
  ret.op = "upload"
    => /\ \A i \in UploadCalls(ret.val.calls) :
            \E j \in 1..(i - 1) : ret.val.calls[j] = ApiCall("validateApiKey", "true")
       /\ (\/ NoApiKey
           \/ yaml.kind = "absent"
           \/ ~Acceptable(yaml)
           \/ \E j \in 1..Len(ret.val.calls) : ret.val.calls[j] = ApiCall("validateApiKey", "false"))
            => (ret.threw /\ UploadCalls(ret.val.calls) = {})
       /\ (/\ ret.arg.globFails
           /\ ~ret.arg.options.dryRun
           /\ DryRunCanPrint(ret.arg, yaml, getApiKey(env, disk), <<>>)
           /\ ret.arg.server.validate = "ok")
            => UploadCalls(ret.val.calls) # {}

\* discovery failed and the suite was created, after the key was validated
C28_Witness ==
  /\ ret.op = "upload"
  /\ ret.arg.globFails
  /\ ~ret.threw
  /\ Len(ret.val.calls) >= 2
  /\ ret.val.calls[1] = ApiCall("validateApiKey", "true")
  /\ ret.val.calls[2] = ApiCall("createTestSuite", "created")

\* C26: the structural strategy makes, for every call evalops_test(config, fn)
\* whose configuration evaluates, one inline_test record at the line of the
\* call whose code is the text of the function argument. Violated: child(0)
\* and child(2) of the arguments node are '(' and ',', so no record is made.
C26_CallArgumentsAreTaken ==
  (ret.op = "structuralParseTestFile" /\ ~ret.threw)
    => \A n \in 1..Len(ParsedItems) :
         (ParsedItems[n].form = "call" /\ WellFormed(ParsedItems[n]))
           => /\ Cardinality({i \in 1..Len(ret.val) :
                                 StructuralRecordOf(ret.val[i], ParsedItems, n)}) = 1
              /\ \A i \in 1..Len(ret.val) :
                   (StructuralRecordOf(ret.val[i], ParsedItems, n)
                      /\ ~DeclaresCode(ParsedItems[n]))
                     => ret.val[i].vars["code"] = StrVal(FunctionValueText(ParsedItems[n]))

\* C27: in the structural strategy a function declaration without an
\* annotation of its own (none on the line before it) yields no record, and the
\* records made from
\* annotations are no more than the annotations. Violated: the walk over
\* previousSibling passes declarations, so the annotation of an earlier
\* function is found for a later plain one.
C27_OnlyOwnAnnotation ==
  (ret.op = "structuralParseTestFile" /\ ~ret.threw)
    => /\ \A n \in 1..Len(ParsedItems) :
            (ParsedItems[n].form = "function"
               /\ (n = 1 \/ ParsedItems[n - 1].form # "annotation"))
              => ~\E i \in 1..Len(ret.val) :
                    /\ ret.val[i].metadata.functionName = <<ParsedItems[n].name>>
                    /\ ret.val[i].metadata.lineNumber = SiteLine(ParsedItems, n)
       /\ Cardinality({i \in 1..Len(ret.val) : ~Inline(ret.val[i])})
            <= Cardinality({n \in 1..Len(ParsedItems) :
                              ParsedItems[n].form \in {"annotated", "annotation"}})

\* C29: pollTestRun returns only a run whose status is 'completed' or 'failed',
\* the one getTestRun answered last; every answer before the last was 'pending'
\* or 'running' and the call went on after it; the call ends after a 'pending'
\* or 'running' answer, or with no answer at all, only by throwing the timeout
\* error when maxWaitMs or more has passed since it started; an error of
\* getTestRun is the last answer and is thrown on.
Last(seq) == seq[Len(seq)]
TimedOut ==
  /\ ret.threw
  /\ ret.val.message[1] = "Test run timeout after "
  /\ now - poll.startTime >= poll.maxWaitMs
C29_PollReturnsOnlyTerminal ==
  /\ (poll.pc = "done") <=> (ret.op = "pollTestRun")
  /\ (ret.op = "pollTestRun" /\ ~ret.threw)
       => /\ ret.val.status \in {"completed", "failed"}
          /\ poll.seen # <<>>
          /\ Last(poll.seen) = ret.val.status
  /\ \A k \in 1..Len(poll.seen) :
       \/ poll.seen[k] \in {"pending", "running"}
       \/ k = Len(poll.seen) /\ poll.pc = "done"
  /\ (poll.pc = "done" /\ poll.seen # <<>> /\ Last(poll.seen) \in {"not ok", "fetch rejects"})
       => ret.threw /\ ret.val.message = getTestRun(Last(poll.seen)).message
  /\ (poll.pc = "done" /\ (poll.seen = <<>> \/ Last(poll.seen) \in {"pending", "running"}))
       => TimedOut
  /\ (poll.pc # "done" /\ poll.pc # "idle") => ret = NoReturn

\* C29 witness: the call has returned a terminal run after an answer that was
\* not terminal, later than maxWaitMs after its start.
C29_Witness ==
  /\ ret.op = "pollTestRun"
  /\ ~ret.threw
  /\ Len(poll.seen) >= 2
  /\ now - poll.startTime >= poll.maxWaitMs

\* C30: validateMetrics reports passed exactly when the violations list is
\* empty and either actions.fail_on_warning is not true or the warnings list is
\* empty; summary.totalViolations and summary.totalWarnings are the lengths of
\* the two lists.
C30_PassedIffWithinBudget ==
  (ret.op = "validateMetrics" /\ ~ret.threw)
    => /\ ret.val.passed
            <=> /\ ret.val.violations = <<>>
                /\ \/ budgetConfig.actions = <<>>
                   \/ budgetConfig.actions[1].fail_on_warning # <<TRUE>>
                   \/ ret.val.warnings = <<>>
       /\ ret.val.summary.totalViolations = Len(ret.val.violations)
       /\ ret.val.summary.totalWarnings = Len(ret.val.warnings)

\* C30 witness: a result with a warning and no violation, not passed because
\* fail_on_warning is true.
C30_Witness ==
  /\ ret.op = "validateMetrics"
  /\ ~ret.threw
  /\ ret.val.violations = <<>>
  /\ ret.val.warnings # <<>>
  /\ ~ret.val.passed
  /\ ret.val.summary.totalWarnings >= 1

====
